---- MODULE Spec2Model ----
(***************************************************************************)
(* A model of gcsfs: a filesystem view (GCSFS) over a flat bucket of       *)
(* objects.  Strings are sequences of one-character strings so that the    *)
(* byte-wise operations of the code (prefix tests, lexicographic order,    *)
(* path cleaning, glob matching) are computed and not assumed.             *)
(***************************************************************************)
EXTENDS Integers, Sequences, FiniteSets, TLC

(***************************************************************************)
(* Strings                                                                 *)
(***************************************************************************)

\* The empty string.
Empty == << >>

\* Byte value of a character (ASCII), the order Go compares strings by.
Ord(c) ==
  CASE c = "*" -> 42
    [] c = "." -> 46
    [] c = "/" -> 47
    [] c = "0" -> 48
    [] c = "1" -> 49
    [] c = "2" -> 50
    [] c = "?" -> 63
    [] c = "[" -> 91
    [] c = "a" -> 97
    [] c = "b" -> 98
    [] c = "d" -> 100
    [] c = "e" -> 101
    [] c = "f" -> 102
    [] c = "i" -> 105
    [] c = "l" -> 108
    [] c = "r" -> 114
    [] c = "t" -> 116
    [] c = "x" -> 120
    [] OTHER -> 122

\* s < t, byte-wise lexicographic (Go's string <).
StrLess(s, t) ==
  \E i \in 1..(Len(t)) :
     /\ i <= Len(s) + 1
     /\ \A j \in 1..(i - 1) : s[j] = t[j]
     /\ \/ i = Len(s) + 1
        \/ Ord(s[i]) < Ord(t[i])

\* s <= t
StrLeq(s, t) == s = t \/ StrLess(s, t)

\* strings.HasPrefix
HasPrefix(s, p) == Len(p) <= Len(s) /\ SubSeq(s, 1, Len(p)) = p

\* strings.HasSuffix
HasSuffix(s, p) == Len(p) <= Len(s) /\ SubSeq(s, Len(s) - Len(p) + 1, Len(s)) = p

\* strings.TrimPrefix
TrimPrefix(s, p) == IF HasPrefix(s, p) THEN SubSeq(s, Len(p) + 1, Len(s)) ELSE s

\* strings.TrimSuffix
TrimSuffix(s, p) == IF HasSuffix(s, p) THEN SubSeq(s, 1, Len(s) - Len(p)) ELSE s

\* Index of the first "/" of s, 0 when there is none.
IndexSlash(s) ==
  IF \E i \in 1..Len(s) : s[i] = "/"
    THEN CHOOSE i \in 1..Len(s) : s[i] = "/" /\ \A j \in 1..(i - 1) : s[j] # "/"
    ELSE 0

\* Index of the last "/" of s, 0 when there is none (strings.LastIndex).
LastIndexSlash(s) ==
  IF \E i \in 1..Len(s) : s[i] = "/"
    THEN CHOOSE i \in 1..Len(s) : s[i] = "/" /\ \A j \in (i + 1)..Len(s) : s[j] # "/"
    ELSE 0

\* strings.Split(s, "/"): the sequence of segments (always at least one).
RECURSIVE SplitAt(_, _)
SplitAt(s, i) ==
  IF i = 0 THEN << s >>
  ELSE << SubSeq(s, 1, i - 1) >>
         \o SplitAt(SubSeq(s, i + 1, Len(s)), IndexSlash(SubSeq(s, i + 1, Len(s))))
Split(s) == SplitAt(s, IndexSlash(s))

\* strings.Join(segs, "/")
RECURSIVE JoinSegs(_)
JoinSegs(segs) ==
  IF Len(segs) = 0 THEN Empty
  ELSE IF Len(segs) = 1 THEN segs[1]
  ELSE segs[1] \o << "/" >> \o JoinSegs(Tail(segs))

(***************************************************************************)
(* Package path and io/fs                                                  *)
(***************************************************************************)

Dot == << "." >>
DotDot == << ".", "." >>
Slash == << "/" >>

\* The segments of a cleaned path: empty and "." segments dropped, ".."
\* resolved against the segment before it.
\* out after the segment s of a path is read.
CleanStep(s, out, rooted) ==
  IF s = Empty \/ s = Dot THEN out
  ELSE IF s # DotDot THEN Append(out, s)
  ELSE IF Len(out) > 0 /\ out[Len(out)] # DotDot THEN SubSeq(out, 1, Len(out) - 1)
  ELSE IF rooted THEN out
  ELSE Append(out, s)

RECURSIVE CleanSegs(_, _, _)
CleanSegs(segs, out, rooted) ==
  IF Len(segs) = 0 THEN out
  ELSE CleanSegs(Tail(segs), CleanStep(Head(segs), out, rooted), rooted)

\* The cleaned path made of the cleaned segments body.
Rooted(p) == Len(p) > 0 /\ p[1] = "/"
CleanOf(rooted, body) ==
  IF rooted THEN Slash \o body
  ELSE IF body = Empty THEN Dot ELSE body

\* path.Clean
Clean(p) == CleanOf(Rooted(p), JoinSegs(CleanSegs(Split(p), << >>, Rooted(p))))

\* The non-empty elements of a and b with a separator between them.
JoinRaw(a, b) ==
  IF a = Empty THEN b ELSE IF b = Empty THEN a ELSE a \o Slash \o b

\* path.Join of two elements: empty elements are ignored, the rest cleaned.
Join(a, b) == IF a = Empty /\ b = Empty THEN Empty ELSE Clean(JoinRaw(a, b))

\* s without its trailing separators.
RECURSIVE StripSlashes(_)
StripSlashes(s) ==
  IF Len(s) > 0 /\ s[Len(s)] = "/" THEN StripSlashes(SubSeq(s, 1, Len(s) - 1)) ELSE s

\* The part of t after its last separator.
LastElem(t) == SubSeq(t, LastIndexSlash(t) + 1, Len(t))

\* The base of a non-empty path stripped of its trailing separators.
BaseOf(u) == IF u = Empty THEN Slash ELSE u

\* path.Base
Base(p) == IF p = Empty THEN Dot ELSE BaseOf(LastElem(StripSlashes(p)))

\* path.Dir
Dir(p) == Clean(SubSeq(p, 1, LastIndexSlash(p)))

\* Every element of segs is a name: not empty, not "." and not "..".
ValidElems(segs) ==
  \A i \in 1..Len(segs) : segs[i] # Empty /\ segs[i] # Dot /\ segs[i] # DotDot

\* fs.ValidPath
ValidPath(name) == name = Dot \/ ValidElems(Split(name))

\* path.Match restricted to patterns over literals, "*" and "?": "*" matches
\* any run of non-separator characters, "?" one non-separator character.
RECURSIVE Match(_, _)
Match(pattern, name) ==
  IF Len(pattern) = 0 THEN Len(name) = 0
  ELSE IF Head(pattern) = "*"
    THEN \E k \in 0..Len(name) :
            /\ \A j \in 1..k : name[j] # "/"
            /\ Match(Tail(pattern), SubSeq(name, k + 1, Len(name)))
  ELSE IF Head(pattern) = "?"
    THEN Len(name) > 0 /\ name[1] # "/" /\ Match(Tail(pattern), Tail(name))
  ELSE Len(name) > 0 /\ name[1] = Head(pattern) /\ Match(Tail(pattern), Tail(name))

(***************************************************************************)
(* Errors.  An error value is its kind (the sentinel at the bottom of the  *)
(* chain errors.Is walks) under a stack of *fs.PathError envelopes, the    *)
(* outermost first.                                                        *)
(***************************************************************************)

Nil == [kind |-> "nil", wraps |-> << >>]

\* A bare sentinel error: storage.ErrObjectNotExist, fs.ErrNotExist,
\* fs.ErrInvalid, syscall.EISDIR, syscall.ENOTDIR, io.EOF.
Sentinel(k) == [kind |-> k, wraps |-> << >>]

\* &fs.PathError{Op: op, Path: name, Err: err}
PathError(op, name, err) ==
  [kind |-> err.kind, wraps |-> << [op |-> op, path |-> name] >> \o err.wraps]

\* isNotExist
isNotExist(err) == err.kind = "ErrNotExist"

\* isObjectNotExist
isObjectNotExist(err) == err.kind = "ErrObjectNotExist"

\* toPathError without the translation of the storage not-found signal.
toPathErrorRaw(err, op, name) ==
  IF err = Nil THEN Nil ELSE PathError(op, name, err)

\* toPathError
toPathError(err, op, name) ==
  IF err = Nil THEN Nil
  ELSE IF isObjectNotExist(err) THEN PathError(op, name, Sentinel("ErrNotExist"))
  ELSE PathError(op, name, err)

\* toObjectNotExistIfNoExist
toObjectNotExistIfNoExist(err) ==
  IF err = Nil THEN Nil
  ELSE IF isNotExist(err) THEN Sentinel("ErrObjectNotExist")
  ELSE err

\* The directory prefix of a cleaned path.
normalizeCleaned(p) ==
  IF p = Dot \/ p = Slash THEN Empty
  ELSE IF p # Empty /\ ~HasSuffix(p, Slash) THEN p \o Slash
  ELSE p

\* normalizePrefix
normalizePrefix(prefix) == normalizeCleaned(Clean(prefix))

\* A glob metacharacter.
Meta(c) == c \in {"*", "?", "[", "\\"}

\* Index of the first glob metacharacter of pattern, 0 when there is none.
IndexMeta(pattern) ==
  IF \E i \in 1..Len(pattern) : Meta(pattern[i])
    THEN CHOOSE i \in 1..Len(pattern) :
           Meta(pattern[i]) /\ \A j \in 1..(i - 1) : ~Meta(pattern[j])
    ELSE 0

\* The pattern up to its first metacharacter.
LiteralHead(pattern) ==
  IF IndexMeta(pattern) = 0 THEN pattern
  ELSE SubSeq(pattern, 1, IndexMeta(pattern) - 1)

\* normalizePrefixPattern exists in two variants in the repository; the one
\* modelled is the one defined together with contains and appendIfMatch,
\* which GCSFS.Glob and GCSFS.listForGlob call.
\* The end of normalizePrefixPattern: the joined prefix keeps the separator
\* the literal head lit ended with, and a root prefix alone keeps its own.
withSeparator(joined, lit) ==
  IF HasSuffix(lit, Slash) \/ (joined # Empty /\ lit = Empty)
    THEN joined \o Slash
    ELSE joined

\* The listing prefix for the literal head lit of a pattern under the
\* normalized root prefix np.
prefixOfLiteral(np, lit) == withSeparator(Join(np, lit), lit)

\* normalizePrefixPattern
normalizePrefixPattern(prefix, pattern) ==
  prefixOfLiteral(normalizePrefix(prefix), LiteralHead(pattern))

\* contains
contains(keys, k) == \E i \in 1..Len(keys) : keys[i] = k

\* appendIfMatch
appendIfMatch(keys, k, pattern) ==
  IF Match(pattern, k) /\ ~contains(keys, k) THEN Append(keys, k) ELSE keys

(***************************************************************************)
(* The bucket.  A store is a function from the keys of its objects to      *)
(* their contents.  The backend is reached through a connection            *)
(* (storage.Client); a backend call fails when the environment makes it    *)
(* fail or when the connection it goes through has been closed.            *)
(***************************************************************************)

VARIABLES
  faults,    \* the backend calls the environment makes fail: << call, argument >>
  c,         \* GCSFS.c of the root in use: 0 (nil) or the number of a connection
  conns      \* the connections storage.NewClient has returned: "open" or "closed"

\* The error of a backend call the environment makes fail (context.Canceled),
\* and the error of a call through a closed connection.
Canceled == Sentinel("Canceled")
ErrClosed == Sentinel("ErrClosed")

\* The root in use holds a connection that has been closed.
Closed == c # 0 /\ conns[c] = "closed"

\* The error of the backend call named call on arg, Nil when it succeeds.
Failure(call, arg) ==
  IF Closed THEN ErrClosed
  ELSE IF << call, arg >> \in faults THEN Canceled
  ELSE Nil

\* GCSFS.client: the connection the root holds, constructed by
\* storage.NewClient when it holds none.  calls lists the backend calls made.
client ==
  IF c # 0 THEN [err |-> Nil, calls |-> << >>]
  ELSE [err |-> IF << "NewClient", Empty >> \in faults THEN Canceled ELSE Nil,
        calls |-> << << "NewClient", Empty >> >>]

\* The backend calls t1 followed by those of t2 in one operation: client
\* constructs the connection once, a later client finds GCSFS.c set.
Connects(t) == \E i \in 1..Len(t) : t[i][1] = "NewClient"
Then(t1, t2) ==
  IF Connects(t1) THEN t1 \o SelectSeq(t2, LAMBDA x : x[1] # "NewClient")
  ELSE t1 \o t2

\* The keys of the objects of a store.
KeysOf(st) == DOMAIN st

\* The least string of a non-empty finite set of strings.
MinStr(S) == CHOOSE s \in S : \A t \in S : StrLeq(s, t)

\* The strings of S in ascending byte order.
RECURSIVE SortedSeq(_)
SortedFrom(S, m) == << m >> \o SortedSeq(S \ {m})
SortedSeq(S) == IF S = {} THEN << >> ELSE SortedFrom(S, MinStr(S))

\* The attributes of an object and of a common prefix (storage.ObjectAttrs).
ObjectAttrs(st, k) == [Name |-> k, Prefix |-> Empty, Size |-> Len(st[k])]
PrefixAttrs(p) == [Name |-> Empty, Prefix |-> p, Size |-> 0]

\* gcsObject.attrs: the attributes of the object named k, or the storage
\* not-found signal.
attrs(st, k) ==
  IF Failure("attrs", k) # Nil
    THEN [err |-> Failure("attrs", k), attrs |-> PrefixAttrs(Empty)]
  ELSE IF k \in KeysOf(st) THEN [err |-> Nil, attrs |-> ObjectAttrs(st, k)]
  ELSE [err |-> Sentinel("ErrObjectNotExist"), attrs |-> PrefixAttrs(Empty)]

\* The objects a listing query selects: their name starts with prefix and
\* is not before startOffset.
Selected(st, prefix, startOffset) ==
  {k \in KeysOf(st) :
     HasPrefix(k, prefix) /\ (startOffset = Empty \/ StrLeq(startOffset, k))}

\* The part of key k after the prefix; whether the delimiter folds k into a
\* common prefix, and that common prefix.
Rest(k, prefix) == SubSeq(k, Len(prefix) + 1, Len(k))
Folded(k, delim, prefix) == delim = Slash /\ IndexSlash(Rest(k, prefix)) # 0
CommonPrefix(k, prefix) ==
  prefix \o SubSeq(Rest(k, prefix), 1, IndexSlash(Rest(k, prefix)))

\* One page of a listing: the objects in name order, then the common
\* prefixes in name order.
ObjectPage(st, items) == [i \in 1..Len(items) |-> ObjectAttrs(st, items[i])]
PrefixPage(prefixes) == [i \in 1..Len(prefixes) |-> PrefixAttrs(prefixes[i])]
PageOf(st, sel, delim, prefix) ==
  ObjectPage(st, SortedSeq({k \in sel : ~Folded(k, delim, prefix)}))
    \o PrefixPage(SortedSeq({CommonPrefix(k, prefix) :
                               k \in {x \in sel : Folded(x, delim, prefix)}}))

\* gcsBucket.objects drained by nextAttrs: the listing a query yields.
objects(st, delim, prefix, startOffset) ==
  PageOf(st, Selected(st, prefix, startOffset), delim, prefix)

\* gcsObjectItetator.nextAttrs: the error of the i-th call on an iterator,
\* Nil when it yields a record or reports the end.  A failing listing
\* fails after it has yielded a number of records.
nextErr(i) == Failure("next", i - 1)

\* The backend calls of a listing with the given prefix drained by n calls
\* of nextAttrs.
listingCalls(prefix, n) ==
  << << "objects", prefix >> >> \o [j \in 1..n |-> << "next", j - 1 >>]

(***************************************************************************)
(* content: a directory entry / file info                                  *)
(***************************************************************************)

\* newDirContent
newDirContent(prefix) ==
  [name |-> Base(TrimSuffix(prefix, Slash)), isDir |-> TRUE, size |-> 0]

\* newFileContent
newFileContent(a) == [name |-> Base(a.Name), isDir |-> FALSE, size |-> a.Size]

\* newContent
newContent(a) == IF a.Name = Empty THEN newDirContent(a.Prefix) ELSE newFileContent(a)

(***************************************************************************)
(* gcsDir: a directory handle, the cursor of one listing                   *)
(***************************************************************************)

\* GCSFS.key
key(fsdir, name) == Join(fsdir, name)

\* GCSFS.rel
rel(fsdir, name) == TrimPrefix(name, normalizePrefix(fsdir))

\* A directory handle with nothing read.
gcsDirAt(prefix) ==
  [prefix |-> prefix, offset |-> Empty, cache |-> << >>, eof |-> FALSE,
   content |-> newDirContent(prefix)]

\* newGcsDir
newGcsDir(fsdir, name) == gcsDirAt(normalizePrefix(key(fsdir, name)))

\* The absent directory handle.
NoDir == gcsDirAt(Empty)

\* A readCache that hands out the whole cache whatever n is.
readCacheWhole(d, n) == [entries |-> d.cache, cache |-> << >>]

\* gcsDir.readCache: the entries taken from the cache and the cache left.
readCache(d, n) ==
  IF n > 0 /\ n < Len(d.cache)
    THEN [entries |-> SubSeq(d.cache, 1, n),
          cache |-> SubSeq(d.cache, n + 1, Len(d.cache))]
    ELSE [entries |-> d.cache, cache |-> << >>]

\* The iterator loop of gcsDir.list over the listing A from position i:
\* a failing nextAttrs ends the call with its error, an entry not after the
\* offset is skipped, and the loop stops early once n > 0 entries are
\* held.  fetched counts the records taken from the iterator and nexts the
\* calls of nextAttrs.
RECURSIVE listLoop(_, _, _, _, _)
listLoopOn(A, i, entries, n, offset, e) ==
  IF StrLeq(e.name, offset) THEN listLoop(A, i + 1, entries, n, offset)
  ELSE IF n > 0 /\ Len(entries) + 1 >= n
    THEN [entries |-> Append(entries, e), eof |-> FALSE, fetched |-> i,
          nexts |-> i, err |-> Nil]
  ELSE listLoop(A, i + 1, Append(entries, e), n, offset)
listLoop(A, i, entries, n, offset) ==
  IF nextErr(i) # Nil
    THEN [entries |-> << >>, eof |-> FALSE, fetched |-> i - 1, nexts |-> i,
          err |-> nextErr(i)]
  ELSE IF i > Len(A)
    THEN [entries |-> entries, eof |-> TRUE, fetched |-> Len(A), nexts |-> i,
          err |-> Nil]
  ELSE listLoopOn(A, i, entries, n, offset, newContent(A[i]))

\* The end of gcsDir.list, cl being what client returned: the error of the
\* iterator is returned as it is; otherwise the offset moves to the name of
\* the last entry.
listDone(d, lp, cl) ==
  IF lp.err # Nil
    THEN [d |-> d, entries |-> << >>, err |-> lp.err, queries |-> 1,
          fetched |-> lp.fetched,
          calls |-> cl.calls \o listingCalls(d.prefix, lp.nexts)]
    ELSE [d |-> [d EXCEPT !.eof = lp.eof,
                          !.offset = IF Len(lp.entries) > 0
                                       THEN lp.entries[Len(lp.entries)].name
                                       ELSE d.offset],
          entries |-> lp.entries, err |-> Nil, queries |-> 1,
          fetched |-> lp.fetched,
          calls |-> cl.calls \o listingCalls(d.prefix, lp.nexts)]

\* gcsDir.list once the end-of-sequence test has passed: the connection,
\* whose error is returned as it is, then one listing query from the offset.
listConnected(d, entries, n, st, cl) ==
  IF cl.err # Nil
    THEN [d |-> d, entries |-> << >>, err |-> cl.err, queries |-> 0,
          fetched |-> 0, calls |-> cl.calls]
    ELSE listDone(d, listLoop(objects(st, Slash, d.prefix, d.offset), 1,
                              entries, n, d.offset), cl)

\* gcsDir.list once the cache is drained: the end-of-sequence signal, or
\* one listing query.
listQuery(d, entries, n, st) ==
  IF d.eof
    THEN [d |-> d, entries |-> << >>, err |-> Sentinel("EOF"),
          queries |-> 0, fetched |-> 0, calls |-> << >>]
    ELSE listConnected(d, entries, n, st, client)

\* gcsDir.list with a non-empty cache, rc being what readCache took.
listCached(d, n, st, rc) ==
  IF d.eof \/ (n > 0 /\ n <= Len(d.cache))
    THEN [d |-> [d EXCEPT !.cache = rc.cache], entries |-> rc.entries,
          err |-> Nil, queries |-> 0, fetched |-> 0, calls |-> << >>]
    ELSE listQuery([d EXCEPT !.cache = rc.cache], rc.entries, n - Len(d.cache), st)

\* gcsDir.list: the handle after the call, the entries it returns, its
\* error, the number of listing queries and records it used, and the
\* backend calls it made.
list(d, n, st) ==
  IF Len(d.cache) > 0 THEN listCached(d, n, st, readCache(d, n))
  ELSE listQuery(d, << >>, n, st)

\* seq without its m-th element.
RemoveAt(seq, m) ==
  [j \in 1..(Len(seq) - 1) |-> IF j < m THEN seq[j] ELSE seq[j + 1]]

\* Entries sorted by name (sort.Slice with the name order).
MinNameIndex(es) ==
  CHOOSE i \in 1..Len(es) :
    /\ \A j \in 1..Len(es) : StrLeq(es[i].name, es[j].name)
    /\ \A j \in 1..(i - 1) : es[j].name # es[i].name
RECURSIVE SortByName(_)
SortByNameFrom(es, m) == << es[m] >> \o SortByName(RemoveAt(es, m))
SortByName(es) == IF Len(es) <= 1 THEN es ELSE SortByNameFrom(es, MinNameIndex(es))

\* gcsDir.ReadDir, l being what list returned.
dirReadDirOf(l, n) ==
  IF l.err # Nil
    THEN IF n <= 0 /\ l.err = Sentinel("EOF")
           THEN [l EXCEPT !.entries = << >>, !.err = Nil]
           ELSE [l EXCEPT !.entries = << >>]
  ELSE IF n <= 0 THEN [l EXCEPT !.entries = SortByName(l.entries)]
  ELSE l

\* gcsDir.ReadDir
dirReadDir(d, n, st) == dirReadDirOf(list(d, n, st), n)

\* gcsDir.open, l being what list returned.
openOf(d, l) ==
  IF l.err # Nil THEN l
  ELSE IF Len(l.entries) = 0
    THEN [l EXCEPT !.err = PathError("Open", d.prefix, Sentinel("ErrNotExist"))]
  ELSE [l EXCEPT !.d.cache = l.entries]

\* gcsDir.open
open(d, n, st) == openOf(d, list(d, n, st))

(***************************************************************************)
(* GCSFS: the operations of the filesystem on a root with prefix fsdir     *)
(***************************************************************************)

\* The read stream of a file handle (gcsFile.in): absent (nil), or open on
\* the bytes the object had when it was opened, pos of them read.
NoReader == [state |-> "nil", data |-> << >>, pos |-> 0]

\* A file handle (gcsFile) and the absent handle of a failed call.
NoFile == [key |-> Empty, content |-> newDirContent(Empty), in |-> NoReader]
newGcsFile(k, a) == [key |-> k, content |-> newFileContent(a), in |-> NoReader]

\* GCSFS.openFile on a valid name once the root is connected, a being what
\* obj.attrs returned for the object with key k.
openFileOf(name, k, a, cl) ==
  IF a.err # Nil
    THEN [err |-> toPathError(a.err, "Open", name), file |-> NoFile,
          calls |-> Append(cl.calls, << "attrs", k >>)]
  ELSE IF a.attrs.Name = Empty /\ a.attrs.Prefix = Empty
    THEN [err |-> toPathError(Sentinel("ErrObjectNotExist"), "Open", name),
          file |-> NoFile, calls |-> Append(cl.calls, << "attrs", k >>)]
  ELSE [err |-> Nil, file |-> newGcsFile(k, a.attrs),
        calls |-> Append(cl.calls, << "attrs", k >>)]

\* GCSFS.openFile on a valid name, cl being what client returned.
openFileAt(st, name, k, cl) ==
  IF cl.err # Nil
    THEN [err |-> toPathError(cl.err, "Open", name), file |-> NoFile,
          calls |-> cl.calls]
    ELSE openFileOf(name, k, attrs(st, k), cl)

\* openFile without the test of the name.
openFileUnchecked(fsdir, st, name) == openFileAt(st, name, key(fsdir, name), client)

\* GCSFS.openFile
openFile(fsdir, st, name) ==
  IF ~ValidPath(name)
    THEN [err |-> toPathError(Sentinel("ErrInvalid"), "Open", name),
          file |-> NoFile, calls |-> << >>]
    ELSE openFileAt(st, name, key(fsdir, name), client)

\* What Open and Stat return: the file that openFile returned as f, or the
\* directory that gcsDir.open returned as o after it.
fileResult(f) ==
  [err |-> f.err, isDir |-> FALSE, d |-> NoDir, file |-> f.file,
   content |-> f.file.content, fetched |-> 0, calls |-> f.calls]
dirResult(f, o) ==
  IF o.err # Nil
    THEN [err |-> o.err, isDir |-> FALSE, d |-> NoDir, file |-> NoFile,
          content |-> NoDir.content, fetched |-> o.fetched,
          calls |-> Then(f.calls, o.calls)]
    ELSE [err |-> Nil, isDir |-> TRUE, d |-> o.d, file |-> NoFile,
          content |-> o.d.content, fetched |-> o.fetched,
          calls |-> Then(f.calls, o.calls)]

\* What Open and Stat share: the file when the object exists, otherwise the
\* directory opened with a buffer of n entries.
openOrDirOf(fsdir, st, name, n, f) ==
  IF f.err # Nil /\ isNotExist(f.err)
    THEN dirResult(f, open(newGcsDir(fsdir, name), n, st))
    ELSE fileResult(f)
openOrDir(fsdir, st, name, n) ==
  openOrDirOf(fsdir, st, name, n, openFile(fsdir, st, name))

\* GCSFS.Open
Open(fsdir, bufSize, st, name) == openOrDir(fsdir, st, name, bufSize)

\* A Stat that lists the whole directory.
StatListingAll(fsdir, st, name) == openOrDir(fsdir, st, name, -1)

\* GCSFS.Stat
Stat(fsdir, st, name) == openOrDir(fsdir, st, name, 1)

\* The entries, the error and the backend calls of a gcsDir.ReadDir result.
entriesOf(r) == [entries |-> r.entries, err |-> r.err, calls |-> r.calls]

\* GCSFS.ReadDir
ReadDir(fsdir, st, dir) ==
  IF ~ValidPath(dir)
    THEN [entries |-> << >>,
          err |-> toPathError(Sentinel("ErrInvalid"), "ReadDir", dir),
          calls |-> << >>]
    ELSE entriesOf(dirReadDir(newGcsDir(fsdir, dir), -1, st))

\* gcsFile.Read drained by io.ReadAll on the handle openFile returned as f:
\* the first Read opens the stream, whose error is path-scoped; an error
\* of the stream itself is returned as it is.
readAll(st, f) ==
  IF f.err # Nil THEN [data |-> << >>, err |-> f.err, calls |-> f.calls]
  ELSE IF Failure("NewReader", f.file.key) # Nil
    THEN [data |-> << >>,
          err |-> toPathError(Failure("NewReader", f.file.key), "Read", f.file.key),
          calls |-> Append(f.calls, << "NewReader", f.file.key >>)]
  ELSE IF Failure("Read", f.file.key) # Nil
    THEN [data |-> << >>, err |-> Failure("Read", f.file.key),
          calls |-> f.calls \o << << "NewReader", f.file.key >>,
                                  << "Read", f.file.key >> >>]
  ELSE [data |-> st[f.file.key], err |-> Nil,
        calls |-> f.calls \o << << "NewReader", f.file.key >>,
                                << "Read", f.file.key >> >>]

\* gcsObject.newReader
newReader(st, k) ==
  IF Failure("NewReader", k) # Nil
    THEN [err |-> Failure("NewReader", k), in |-> NoReader]
  ELSE IF k \notin KeysOf(st)
    THEN [err |-> Sentinel("ErrObjectNotExist"), in |-> NoReader]
  ELSE [err |-> Nil, in |-> [state |-> "open", data |-> st[k], pos |-> 0]]

\* storage.Reader.Read into a buffer of one byte, and the rest of
\* gcsFile.Read on the handle f after the backend calls in calls.
streamRead(f, calls) ==
  IF Failure("Read", f.key) # Nil
    THEN [f |-> f, data |-> << >>, err |-> Failure("Read", f.key),
          calls |-> Append(calls, << "Read", f.key >>)]
  ELSE IF f.in.pos < Len(f.in.data)
    THEN [f |-> [f EXCEPT !.in.pos = f.in.pos + 1],
          data |-> << f.in.data[f.in.pos + 1] >>, err |-> Nil,
          calls |-> Append(calls, << "Read", f.key >>)]
  ELSE [f |-> f, data |-> << >>, err |-> Sentinel("EOF"),
        calls |-> Append(calls, << "Read", f.key >>)]

\* gcsFile.Read on a handle without a stream, r being what obj.NewReader
\* returned.
fileReadOf(f, r) ==
  IF r.err # Nil
    THEN [f |-> f, data |-> << >>, err |-> toPathError(r.err, "Read", f.key),
          calls |-> << << "NewReader", f.key >> >>]
    ELSE streamRead([f EXCEPT !.in = r.in], << << "NewReader", f.key >> >>)

\* gcsFile.Read
fileRead(f, st) ==
  IF f.in.state = "nil" THEN fileReadOf(f, newReader(st, f.key))
  ELSE streamRead(f, << >>)

\* gcsFile.Close closing the stream whether or not there is one.
fileCloseAlways(f) ==
  [f |-> [f EXCEPT !.in = NoReader], err |-> Nil,
   calls |-> << << "Close", f.key >> >>]

\* gcsFile.Close
fileClose(f) ==
  IF f.in.state # "nil"
    THEN [f |-> [f EXCEPT !.in = NoReader], err |-> Nil,
          calls |-> << << "Close", f.key >> >>]
    ELSE [f |-> f, err |-> Nil, calls |-> << >>]

\* GCSFS.ReadFile
ReadFile(fsdir, st, name) == readAll(st, openFile(fsdir, st, name))

\* The names of a sequence of entries.
Names(es) == [i \in 1..Len(es) |-> es[i].name]

\* The iterator loop of GCSFS.listForGlob over the listing A: a failing
\* nextAttrs ends the call with a path-scoped error.
RECURSIVE listForGlobLoop(_, _, _, _, _, _)
listForGlobLoop(fsdir, A, i, names, pattern, dirOnly) ==
  IF nextErr(i) # Nil
    THEN [names |-> << >>, err |-> toPathError(nextErr(i), "Glob", pattern),
          nexts |-> i]
  ELSE IF i > Len(A) THEN [names |-> names, err |-> Nil, nexts |-> i]
  ELSE listForGlobLoop(fsdir, A, i + 1,
         IF A[i].Name = Empty
           THEN appendIfMatch(names, rel(fsdir, TrimSuffix(A[i].Prefix, Slash)), pattern)
         ELSE IF dirOnly THEN names
         ELSE appendIfMatch(names, rel(fsdir, A[i].Name), pattern),
         pattern, dirOnly)

\* GCSFS.listForGlob, cl being what client returned: its error is returned
\* as it is.
listForGlobDone(lp, cl, prefix) ==
  [names |-> lp.names, err |-> lp.err,
   calls |-> cl.calls \o listingCalls(prefix, lp.nexts)]
listForGlobOf(fsdir, st, pattern, dirOnly, cl, prefix) ==
  IF cl.err # Nil THEN [names |-> << >>, err |-> cl.err, calls |-> cl.calls]
  ELSE listForGlobDone(
         listForGlobLoop(fsdir, objects(st, Slash, prefix, Empty), 1, << >>,
                         pattern, dirOnly),
         cl, prefix)

\* GCSFS.listForGlob
listForGlob(fsdir, st, pattern, dirOnly) ==
  listForGlobOf(fsdir, st, pattern, dirOnly, client,
                normalizePrefixPattern(fsdir, pattern))

\* The loop of GCSFS.glob over dirs: the keys found for the first pattern
\* segment under every candidate directory, in order; the first error ends
\* the loop.
RECURSIVE globKeys(_, _, _, _, _)
globKeysAfter(l, rest) ==
  [names |-> IF rest.err # Nil THEN << >> ELSE l.names \o rest.names,
   err |-> rest.err, calls |-> Then(l.calls, rest.calls)]
globKeysOn(fsdir, st, dirs, segment, dirOnly, l) ==
  IF l.err # Nil THEN l
  ELSE globKeysAfter(l, globKeys(fsdir, st, Tail(dirs), segment, dirOnly))
globKeys(fsdir, st, dirs, segment, dirOnly) ==
  IF Len(dirs) = 0 THEN [names |-> << >>, err |-> Nil, calls |-> << >>]
  ELSE globKeysOn(fsdir, st, dirs, segment, dirOnly,
                  listForGlob(fsdir, st, Join(Head(dirs), segment), dirOnly))

\* GCSFS.glob
RECURSIVE glob(_, _, _, _, _)
globAfter(ks, g) == [g EXCEPT !.calls = Then(ks.calls, g.calls)]
globOn(fsdir, st, patterns, matches, ks) ==
  IF ks.err # Nil THEN ks
  ELSE IF Len(ks.names) > 0 /\ Len(patterns) > 1
    THEN globAfter(ks, glob(fsdir, st, ks.names, Tail(patterns),
                            matches \o ks.names))
    ELSE [names |-> matches \o ks.names, err |-> Nil, calls |-> ks.calls]
glob(fsdir, st, dirs, patterns, matches) ==
  globOn(fsdir, st, patterns, matches,
         globKeys(fsdir, st, dirs, patterns[1], Len(patterns) > 1))

\* path.Match(pattern, "") reports a malformed pattern: over this alphabet,
\* an unclosed character class.
BadPattern(pattern) == \E i \in 1..Len(pattern) : pattern[i] = "["

\* The filter of GCSFS.Glob: the names matching the whole pattern, once each.
RECURSIVE filterMatches(_, _, _)
filterMatches(names, pattern, matches) ==
  IF Len(names) = 0 THEN matches
  ELSE filterMatches(Tail(names), pattern, appendIfMatch(matches, Head(names), pattern))

\* sort.Strings
MinIndex(names) ==
  CHOOSE i \in 1..Len(names) :
    /\ \A j \in 1..Len(names) : StrLeq(names[i], names[j])
    /\ \A j \in 1..(i - 1) : names[j] # names[i]
RECURSIVE sortStrings(_)
\* sortStrings leaving the names in the order they were found.
sortStringsNone(names) == names
sortStringsFrom(names, m) == << names[m] >> \o sortStrings(RemoveAt(names, m))
sortStrings(names) ==
  IF Len(names) <= 1 THEN names ELSE sortStringsFrom(names, MinIndex(names))

\* The special case of GCSFS.Glob, r being what ReadDir("") returned.
globAll(r) ==
  IF r.err # Nil THEN [names |-> << >>, err |-> r.err, calls |-> r.calls]
  ELSE [names |-> Names(r.entries), err |-> Nil, calls |-> r.calls]

\* The end of GCSFS.Glob, g being what glob returned: its error is returned
\* as it is; otherwise the names matching the whole pattern, sorted.
globDone(g, pattern) ==
  IF g.err # Nil THEN [names |-> << >>, err |-> g.err, calls |-> g.calls]
  ELSE [names |-> sortStrings(filterMatches(g.names, pattern, << >>)),
        err |-> Nil, calls |-> g.calls]

\* A Glob that asks for the connection before it validates the pattern.
GlobValidatingLate(fsdir, st, pattern) ==
  IF pattern = Empty \/ pattern = << "*" >>
    THEN globAll(ReadDir(fsdir, st, Empty))
  ELSE IF BadPattern(pattern)
    THEN [names |-> << >>, err |-> Sentinel("ErrBadPattern"), calls |-> client.calls]
  ELSE globDone(glob(fsdir, st, << Empty >>, Split(pattern), << >>), pattern)

\* GCSFS.Glob
Glob(fsdir, st, pattern) ==
  IF pattern = Empty \/ pattern = << "*" >>
    THEN globAll(ReadDir(fsdir, st, Empty))
  ELSE IF BadPattern(pattern)
    THEN [names |-> << >>, err |-> Sentinel("ErrBadPattern"), calls |-> << >>]
  ELSE globDone(glob(fsdir, st, << Empty >>, Split(pattern), << >>), pattern)

(***************************************************************************)
(* Writing and removing                                                    *)
(***************************************************************************)

\* The write stream of a writer handle: absent (nil), open with the bytes
\* written so far, or closed.
NoStream == [state |-> "nil", buf |-> << >>]

\* newGcsWriterFile
newGcsWriterFile(name, k) ==
  [name |-> name, key |-> k, out |-> NoStream,
   content |-> [name |-> Base(name), isDir |-> FALSE, size |-> 0]]

\* The absent writer handle of a failed call.
NoWriter == newGcsWriterFile(Empty, Empty)

\* The end of GCSFS.createFile, p being what openFile returned for the
\* parent of name after the backend calls in calls: an object there makes
\* the parent not a directory, and any error of openFile lets the file be
\* created.
createFileParent(fsdir, name, calls, p) ==
  IF p.err = Nil
    THEN [err |-> toPathError(Sentinel("ENOTDIR"), "CreateFile", Dir(name)),
          w |-> NoWriter, calls |-> Then(calls, p.calls)]
    ELSE [err |-> Nil, w |-> newGcsWriterFile(name, key(fsdir, name)),
          calls |-> Then(calls, p.calls)]

\* GCSFS.createFile once no object has the name, o being what gcsDir.open
\* returned for the directory of that name after openFile returned f: only
\* an open without error stops the creation.
createFileProbed(fsdir, st, name, f, o) ==
  IF o.err = Nil
    THEN [err |-> toPathError(Sentinel("EISDIR"), "CreateFile", name),
          w |-> NoWriter, calls |-> Then(f.calls, o.calls)]
    ELSE createFileParent(fsdir, name, Then(f.calls, o.calls),
                          openFile(fsdir, st, Dir(name)))

\* createFileOf without the probe of the directory of the same name.
createFileNoDirProbe(fsdir, st, name, f) ==
  IF f.err # Nil /\ ~isNotExist(f.err)
    THEN [err |-> toPathError(f.err, "CreateFile", name), w |-> NoWriter,
          calls |-> f.calls]
  ELSE createFileParent(fsdir, name, f.calls, openFile(fsdir, st, Dir(name)))

\* GCSFS.createFile on a valid name with a connection, f being what
\* openFile(name) returned.
createFileOf(fsdir, st, name, f) ==
  IF f.err # Nil /\ ~isNotExist(f.err)
    THEN [err |-> toPathError(f.err, "CreateFile", name), w |-> NoWriter,
          calls |-> f.calls]
  ELSE IF f.err # Nil
    THEN createFileProbed(fsdir, st, name, f, open(newGcsDir(fsdir, name), 1, st))
  ELSE createFileParent(fsdir, name, f.calls, openFile(fsdir, st, Dir(name)))

\* GCSFS.createFile on a valid name, cl being what client returned.
createFileAt(fsdir, st, name, cl) ==
  IF cl.err # Nil
    THEN [err |-> toPathError(cl.err, "Create", name), w |-> NoWriter,
          calls |-> cl.calls]
    ELSE createFileOf(fsdir, st, name, openFile(fsdir, st, name))

\* GCSFS.createFile
createFile(fsdir, st, name) ==
  IF ~ValidPath(name)
    THEN [err |-> toPathError(Sentinel("ErrInvalid"), "Create", name),
          w |-> NoWriter, calls |-> << >>]
    ELSE createFileAt(fsdir, st, name, client)

\* obj.NewWriter on the first write, and storage.Writer.Write.
streamOpened(out) ==
  IF out.state = "nil" THEN [state |-> "open", buf |-> << >>] ELSE out
streamWrite(out, p) == [out EXCEPT !.buf = out.buf \o p]

\* gcsWriterFile.Write: the first write opens the stream; the bytes go to
\* the stream.
writerWrite(w, p) == [w EXCEPT !.out = streamWrite(streamOpened(w.out), p)]

\* gcsWriterFile.Write with what it returns: the backend calls are the
\* opening of the stream, on the first write, and the write.
writeCalls(w) ==
  IF w.out.state = "nil"
    THEN << << "NewWriter", w.key >>, << "Write", w.key >> >>
    ELSE << << "Write", w.key >> >>
fileWrite(w, p) ==
  IF Failure("Write", w.key) # Nil
    THEN [w |-> [w EXCEPT !.out = streamOpened(w.out)], n |-> 0,
          err |-> Failure("Write", w.key), calls |-> writeCalls(w)]
    ELSE [w |-> writerWrite(w, p), n |-> Len(p), err |-> Nil,
          calls |-> writeCalls(w)]

\* gcsWriterFile.Close
writerClose(w) == w

\* storage.Writer: the object is created, with the bytes of the stream,
\* when the stream is closed; an open stream leaves the bucket as it was.
commit(st, w) ==
  IF w.out.state = "closed" THEN (w.key :> w.out.buf) @@ st ELSE st

\* GCSFS.WriteFile once createFile returned cr: the bytes are written, a
\* failing Write ends the call with a path-scoped error, and the deferred
\* Close runs, leaving the writer w.
writeFileDone(st, p, w, calls) ==
  [n |-> Len(p), err |-> Nil, w |-> w, st |-> commit(st, w),
   calls |-> calls \o << << "NewWriter", w.key >>, << "Write", w.key >> >>]
writeFileOf(st, p, cr) ==
  IF cr.err # Nil
    THEN [n |-> 0, err |-> cr.err, w |-> NoWriter, st |-> st, calls |-> cr.calls]
  ELSE IF Failure("Write", cr.w.key) # Nil
    THEN [n |-> 0,
          err |-> toPathError(Failure("Write", cr.w.key), "WriteFile", cr.w.name),
          w |-> writerClose([cr.w EXCEPT !.out = streamOpened(cr.w.out)]),
          st |-> st,
          calls |-> cr.calls \o << << "NewWriter", cr.w.key >>,
                                  << "Write", cr.w.key >> >>]
  ELSE writeFileDone(st, p, writerClose(writerWrite(cr.w, p)), cr.calls)

\* GCSFS.WriteFile
WriteFile(fsdir, st, name, p) == writeFileOf(st, p, createFile(fsdir, st, name))

\* gcsObject.delete
delete(st, k) ==
  IF Failure("delete", k) # Nil THEN [st |-> st, err |-> Failure("delete", k)]
  ELSE IF k \in KeysOf(st)
    THEN [st |-> [x \in KeysOf(st) \ {k} |-> st[x]], err |-> Nil]
    ELSE [st |-> st, err |-> Sentinel("ErrObjectNotExist")]

\* The error of GCSFS.RemoveFile, r being what obj.delete returned for the
\* object with key k.
removeFileOf(name, r, k, cl) ==
  [st |-> r.st, err |-> toPathError(r.err, "RemoveFile", name),
   calls |-> Append(cl.calls, << "delete", k >>)]

\* GCSFS.RemoveFile on a valid name, cl being what client returned.
removeFileAt(st, name, k, cl) ==
  IF cl.err # Nil
    THEN [st |-> st, err |-> toPathError(cl.err, "RemoveFile", name),
          calls |-> cl.calls]
    ELSE removeFileOf(name, delete(st, k), k, cl)

\* GCSFS.RemoveFile
RemoveFile(fsdir, st, name) ==
  IF ~ValidPath(name)
    THEN [st |-> st, err |-> toPathError(Sentinel("ErrInvalid"), "RemoveFile", name),
          calls |-> << >>]
    ELSE removeFileAt(st, name, key(fsdir, name), client)

\* The loop of GCSFS.RemoveAll(dir) over the listing A after the backend
\* calls in calls: every listed object is deleted, and the first failure,
\* of the iterator or of a delete, ends the walk.
RECURSIVE removeLoop(_, _, _, _, _)
\* removeLoopOn going on with the next object after a failed delete.
removeLoopOnKeepGoing(A, i, name, r, dir, calls) ==
  removeLoop(r.st, A, i + 1, dir, Append(calls, << "delete", name >>))
removeLoopOn(A, i, name, r, dir, calls) ==
  IF r.err # Nil
    THEN [st |-> r.st, err |-> toPathError(r.err, "RemoveAll", name),
          calls |-> Append(calls, << "delete", name >>)]
    ELSE removeLoop(r.st, A, i + 1, dir, Append(calls, << "delete", name >>))
removeLoopAt(st, A, i, name, dir, calls) ==
  removeLoopOn(A, i, name, delete(st, name), dir, calls)
removeLoop(st, A, i, dir, calls) ==
  IF nextErr(i) # Nil
    THEN [st |-> st, err |-> toPathError(nextErr(i), "RemoveAll", dir),
          calls |-> Append(calls, << "next", i - 1 >>)]
  ELSE IF i > Len(A)
    THEN [st |-> st, err |-> Nil, calls |-> Append(calls, << "next", i - 1 >>)]
  ELSE removeLoopAt(st, A, i, Join(A[i].Prefix, A[i].Name), dir,
                    Append(calls, << "next", i - 1 >>))

\* GCSFS.RemoveAll on a valid name, cl being what client returned and
\* prefix the prefix of the listing.
removeAllAt(st, dir, prefix, cl) ==
  IF cl.err # Nil
    THEN [st |-> st, err |-> toPathError(cl.err, "RemoveAll", dir),
          calls |-> cl.calls]
    ELSE removeLoop(st, objects(st, Empty, prefix, Empty), 1, dir,
                    Append(cl.calls, << "objects", prefix >>))

\* GCSFS.RemoveAll
RemoveAll(fsdir, st, dir) ==
  IF ~ValidPath(dir)
    THEN [st |-> st, err |-> toPathError(Sentinel("ErrInvalid"), "RemoveAll", dir),
          calls |-> << >>]
    ELSE removeAllAt(st, dir, normalizePrefix(key(fsdir, dir)), client)

\* GCSFS.Sub on a valid name, cl being what client returned: its error is
\* returned as it is.
subAt(fsdir, dir, cl) ==
  IF cl.err # Nil THEN [dir |-> fsdir, err |-> cl.err, calls |-> cl.calls]
  ELSE [dir |-> Join(fsdir, dir), err |-> Nil, calls |-> cl.calls]

\* GCSFS.Sub: the prefix of the derived root.
Sub(fsdir, dir) ==
  IF ~ValidPath(dir)
    THEN [dir |-> fsdir, err |-> toPathError(Sentinel("ErrInvalid"), "Sub", dir),
          calls |-> << >>]
    ELSE subAt(fsdir, dir, client)

(***************************************************************************)
(* The state machine: one root over one bucket, driven by a caller that    *)
(* makes one call at a time.                                               *)
(***************************************************************************)

VARIABLES
  store,     \* the bucket: object key -> contents
  fsdir,     \* GCSFS.dir, the prefix of the root in use
  bufSize,   \* GCSFS.DirOpenBufferSize
  res,       \* the call that has just returned and what it returned
  pre,       \* the bucket as it was when that call was made
  h,         \* the directory handles (gcsDir) the caller holds: none or one
  emitted,   \* every entry gcsDir.ReadDir has returned on the handle, in order
  sizes,     \* the values of n gcsDir.ReadDir was called with on the handle
  rf,        \* the file handles (gcsFile) the caller holds: none or one
  wf,        \* the writer handles (gcsWriterFile) the caller holds: none or one
  streams,   \* the streams opened and closed through the handle held
  held,      \* the other roots the caller holds: prefix, buffer size, GCSFS.c
  made       \* the keys of the directories MkdirAll has been called with

vars ==
  << store, fsdir, bufSize, res, pre, h, emitted, sizes, faults, c, conns,
     rf, wf, streams, held, made >>

\* The state of the file and writer handles.
fileVars == << rf, wf, streams >>
NoStreams == [opens |-> 0, closes |-> 0]

\* Bounds of the model.
MaxDataLen == 2
MaxSubDepth == 1
MaxN == 2

defaultDirOpenBufferSize == 100

\* Names used below.
kA == << "a" >>
kB == << "b" >>
kAB == << "a", "b" >>
kA_A == << "a", "/", "a" >>
kA_B == << "a", "/", "b" >>
kB_A == << "b", "/", "a" >>
kB_B == << "b", "/", "b" >>
kA_A_A == << "a", "/", "a", "/", "a" >>

\* The keys an object of the bucket may have at the start, and the contents
\* every such object starts with.
InitKeys == {kA, kB, kAB, kA_A, kA_B, kB_A, kA_A_A}
InitData == << "x" >>

\* The names the caller passes: valid paths, and paths fs.ValidPath rejects.
ValidNames == {Dot, kA, kB, kAB, kA_A, kA_B, kB_A, kB_B, kA_A_A}
InvalidNames ==
  { Empty, << "a", "/" >>, << "/", "a" >>, << ".", ".", "/", "a" >>,
    << ".", "/", "a" >>, << "a", "/", "/", "b" >> }
AllNames == ValidNames \cup InvalidNames

\* The directories Sub is called with.
SubDirs == {kA, kB}

\* The glob patterns the caller passes.
Patterns ==
  { Empty, << "*" >>, << "?" >>, kA, kAB, << "a", "*" >>, << "*", "b" >>,
    << "a", "?" >>, kA_B, << "a", "/", "*" >>, << "*", "/", "a" >>,
    << "*", "/", "*" >>, << "?", "/", "?" >>, << "*", "/", "*", "/", "*" >>,
    << "a", "/", "a", "/", "?" >> }

\* The byte sequences WriteFile is called with: every length up to the bound.
Data == {[i \in 1..len |-> "y"] : len \in 0..MaxDataLen}

\* The buffer sizes a caller sets DirOpenBufferSize to.
BufferSizes == (1..MaxN) \cup {defaultDirOpenBufferSize}

\* The number of segments of a root prefix.
Depth(dir) == IF dir = Empty THEN 0 ELSE Len(Split(dir))

\* No call has returned.
NoRes ==
  [op |-> "none", name |-> Empty, p |-> << >>, n |-> 0, err |-> Nil,
   isDir |-> FALSE, content |-> newDirContent(Empty), entries |-> << >>,
   names |-> << >>, data |-> << >>, w |-> NoWriter, fetched |-> 0, queries |-> 0,
   calls |-> << >>]

Idle == res.op = "none"

\* GCSFS.c after an operation that made the backend calls in calls: the
\* connection client constructed is kept.
Constructs(calls) ==
  c = 0 /\ Connects(calls) /\ << "NewClient", Empty >> \notin faults
Connect(calls) ==
  /\ c' = IF Constructs(calls) THEN Len(conns) + 1 ELSE c
  /\ conns' = IF Constructs(calls) THEN Append(conns, "open") ELSE conns
  /\ UNCHANGED << faults, held, made >>

\* New(bucket): the root has no prefix and the default buffer size; the
\* bucket holds any set of objects.
Init ==
  /\ store \in {[k \in S |-> InitData] : S \in SUBSET InitKeys}
  /\ fsdir = Empty
  /\ bufSize = defaultDirOpenBufferSize
  /\ res = NoRes
  /\ pre = store
  /\ h = << >>
  /\ emitted = << >>
  /\ sizes = {}
  /\ faults = {}
  /\ c = 0
  /\ conns = << >>
  /\ held = << >>
  /\ made = {}
  /\ rf = << >>
  /\ wf = << >>
  /\ streams = NoStreams

\* The caller is done with what the call returned.
Return ==
  /\ ~Idle
  /\ res' = NoRes
  /\ pre' = store
  /\ UNCHANGED << store, fsdir, bufSize, h, emitted, sizes, faults, c, conns, held, made >>
  /\ UNCHANGED fileVars

\* A call that leaves the bucket, the root and the handle as they are.
ReadOnly(r) ==
  /\ Idle
  /\ res' = r
  /\ pre' = store
  /\ Connect(r.calls)
  /\ UNCHANGED << store, fsdir, bufSize, h, emitted, sizes >>
  /\ UNCHANGED fileVars

\* A call that may change the bucket: r is what it returned and st the
\* bucket it left.
Mutating(r, st) ==
  /\ Idle
  /\ res' = r
  /\ pre' = store
  /\ store' = st
  /\ Connect(r.calls)
  /\ UNCHANGED << fsdir, bufSize, h, emitted, sizes >>
  /\ UNCHANGED fileVars

\* What the caller sees of each call.
openRes(op, name, o) ==
  [NoRes EXCEPT !.op = op, !.name = name, !.err = o.err, !.isDir = o.isDir,
                !.content = o.content, !.entries = o.d.cache,
                !.fetched = o.fetched, !.calls = o.calls]
readDirRes(name, r) ==
  [NoRes EXCEPT !.op = "ReadDir", !.name = name, !.err = r.err,
                !.entries = r.entries, !.names = Names(r.entries),
                !.calls = r.calls]
readFileRes(name, r) ==
  [NoRes EXCEPT !.op = "ReadFile", !.name = name, !.err = r.err, !.data = r.data,
                !.calls = r.calls]
globRes(pattern, g) ==
  [NoRes EXCEPT !.op = "Glob", !.p = pattern, !.err = g.err, !.names = g.names,
                !.calls = g.calls]
createFileRes(name, cr) ==
  [NoRes EXCEPT !.op = "CreateFile", !.name = name, !.err = cr.err, !.w = cr.w,
                !.calls = cr.calls]
writeFileRes(name, p, r) ==
  [NoRes EXCEPT !.op = "WriteFile", !.name = name, !.p = p, !.n = r.n,
                !.err = r.err, !.w = r.w, !.calls = r.calls]
removeRes(op, name, r) ==
  [NoRes EXCEPT !.op = op, !.name = name, !.err = r.err, !.calls = r.calls]

CallOpen(name) == ReadOnly(openRes("Open", name, Open(fsdir, bufSize, store, name)))

CallStat(name) == ReadOnly(openRes("Stat", name, Stat(fsdir, store, name)))

CallReadDir(name) == ReadOnly(readDirRes(name, ReadDir(fsdir, store, name)))

CallReadFile(name) == ReadOnly(readFileRes(name, ReadFile(fsdir, store, name)))

CallGlob(pattern) == ReadOnly(globRes(pattern, Glob(fsdir, store, pattern)))

CallCreateFile(name) == ReadOnly(createFileRes(name, createFile(fsdir, store, name)))

CallWriteFile(name, p) ==
  Mutating(writeFileRes(name, p, WriteFile(fsdir, store, name, p)),
           WriteFile(fsdir, store, name, p).st)

CallRemoveFile(name) ==
  Mutating(removeRes("RemoveFile", name, RemoveFile(fsdir, store, name)),
           RemoveFile(fsdir, store, name).st)

CallRemoveAll(name) ==
  Mutating(removeRes("RemoveAll", name, RemoveAll(fsdir, store, name)),
           RemoveAll(fsdir, store, name).st)

\* Sub: the caller goes on with the derived root, which is built without a
\* DirOpenBufferSize.
subRes(dir, r) ==
  [NoRes EXCEPT !.op = "Sub", !.name = dir, !.err = r.err, !.calls = r.calls]
CallSubOf(dir, r) ==
  /\ Idle
  /\ Depth(fsdir) < MaxSubDepth
  /\ res' = subRes(dir, r)
  /\ pre' = store
  /\ fsdir' = r.dir
  /\ bufSize' = IF r.err = Nil THEN 0 ELSE bufSize
  /\ Connect(r.calls)
  /\ UNCHANGED << store, h, emitted, sizes >>
  /\ UNCHANGED fileVars
CallSub(dir) == CallSubOf(dir, Sub(fsdir, dir))

Next ==
  \/ \E name \in AllNames : CallOpen(name)
  \/ \E name \in AllNames : CallStat(name)
  \/ \E name \in AllNames : CallReadDir(name)
  \/ \E name \in AllNames : CallReadFile(name)
  \/ \E pattern \in Patterns : CallGlob(pattern)
  \/ \E name \in AllNames : CallCreateFile(name)
  \/ \E name \in AllNames, p \in Data : CallWriteFile(name, p)
  \/ \E name \in AllNames : CallRemoveFile(name)
  \/ \E name \in AllNames : CallRemoveAll(name)
  \/ \E dir \in SubDirs \cup {Empty} : CallSub(dir)
  \/ Return

Spec == Init /\ [][Next]_vars

(***************************************************************************)
(* A second specification: a caller who sets DirOpenBufferSize, opens one  *)
(* directory and reads it through the handle.                              *)
(***************************************************************************)

\* The values of n the caller passes to gcsDir.ReadDir.
ReadSizes == {-1} \cup (1..MaxN)

InitDir ==
  /\ store \in {[k \in S |-> InitData] : S \in SUBSET InitKeys}
  /\ fsdir = Empty
  /\ bufSize \in BufferSizes
  /\ res = NoRes
  /\ pre = store
  /\ h = << >>
  /\ emitted = << >>
  /\ sizes = {}
  /\ faults = {}
  /\ c = 0
  /\ conns = << >>
  /\ held = << >>
  /\ made = {}
  /\ rf = << >>
  /\ wf = << >>
  /\ streams = NoStreams

\* GCSFS.Open by a caller that holds no handle: a directory handle is kept.
OpenDirOf(name, o) ==
  /\ h = << >>
  /\ res' = openRes("Open", name, o)
  /\ h' = IF o.err = Nil /\ o.isDir THEN << o.d >> ELSE << >>
  /\ Connect(o.calls)
  /\ UNCHANGED << store, fsdir, bufSize, pre, emitted, sizes >>
  /\ UNCHANGED fileVars
OpenDir(name) == OpenDirOf(name, Open(fsdir, bufSize, store, name))

\* gcsDir.ReadDir(n) on the handle.
dirReadDirRes(n, r) ==
  [NoRes EXCEPT !.op = "DirReadDir", !.n = n, !.err = r.err,
                !.entries = r.entries, !.fetched = r.fetched,
                !.queries = r.queries, !.calls = r.calls]
HandleReadDirOf(n, r) ==
  /\ h # << >>
  /\ res' = dirReadDirRes(n, r)
  /\ h' = << r.d >>
  /\ emitted' = emitted \o r.entries
  /\ sizes' = sizes \cup {n}
  /\ Connect(r.calls)
  /\ UNCHANGED << store, fsdir, bufSize, pre >>
  /\ UNCHANGED fileVars
HandleReadDir(n) ==
  /\ h # << >>
  /\ HandleReadDirOf(n, dirReadDir(h[1], n, store))

\* gcsDir.Close: the caller lets the handle go.
HandleClose ==
  /\ h # << >>
  /\ res' = [NoRes EXCEPT !.op = "DirClose"]
  /\ h' = << >>
  /\ emitted' = << >>
  /\ sizes' = {}
  /\ UNCHANGED << store, fsdir, bufSize, pre, faults, c, conns, held, made >>
  /\ UNCHANGED fileVars

NextDir ==
  \/ \E name \in ValidNames : OpenDir(name)
  \/ \E n \in ReadSizes : HandleReadDir(n)
  \/ HandleClose

SpecDir == InitDir /\ [][NextDir]_vars

(***************************************************************************)
(* A third specification: the bucket of the scenario with two directories, *)
(* dir0 holding file01.txt and file02.txt and dir1 holding x.txt, read and  *)
(* pruned by a caller.                                                      *)
(***************************************************************************)

dir0 == << "d", "i", "r", "0" >>
dir1 == << "d", "i", "r", "1" >>
file01 == << "f", "i", "l", "e", "0", "1", ".", "t", "x", "t" >>
file02 == << "f", "i", "l", "e", "0", "2", ".", "t", "x", "t" >>
xtxt == << "x", ".", "t", "x", "t" >>

\* The objects of the scenario and the names the caller passes.
TreeKeys == {dir0 \o Slash \o file01, dir0 \o Slash \o file02, dir1 \o Slash \o xtxt}
TreeNames == {Empty, Dot, dir0, dir1} \cup TreeKeys

InitTree ==
  /\ store = [k \in TreeKeys |-> InitData]
  /\ fsdir = Empty
  /\ bufSize = defaultDirOpenBufferSize
  /\ res = NoRes
  /\ pre = store
  /\ h = << >>
  /\ emitted = << >>
  /\ sizes = {}
  /\ faults = {}
  /\ c = 0
  /\ conns = << >>
  /\ held = << >>
  /\ made = {}
  /\ rf = << >>
  /\ wf = << >>
  /\ streams = NoStreams

NextTree ==
  \/ \E name \in TreeNames : CallReadDir(name)
  \/ \E name \in TreeNames : CallStat(name)
  \/ \E name \in TreeNames : CallRemoveFile(name)
  \/ Return

SpecTree == InitTree /\ [][NextTree]_vars

(***************************************************************************)
(* A fourth specification: a backend one of whose calls fails (its context *)
(* is cancelled) every time it is made.                                    *)
(***************************************************************************)

\* A failing listing fails after it has yielded up to this many records.
MaxFailAt == 2

\* The objects of the bucket and the names the caller passes.
FaultKeys == {kA, kA_A, kA_B}
FaultNames == {Dot, kA, kB, kA_A, kA_B}
FaultPatterns == {<< "*" >>, << "a", "*" >>, << "a", "/", "*" >>, << "*", "/", "*" >>}

\* Patterns path.Match reports as malformed.
BadPatterns == {<< "[" >>, << "a", "[" >>, << "*", "[" >>, << "a", "/", "[" >>}

\* The backend calls that may be the failing one.
FaultCalls ==
  {<< "NewClient", Empty >>}
    \cup {<< call, k >> : call \in {"attrs", "delete", "NewReader", "Read", "Write"},
                          k \in {Empty, kA, kB, kA_A, kA_B}}
    \cup {<< "next", j >> : j \in 0..MaxFailAt}

InitFault ==
  /\ store \in {[k \in S |-> InitData] : S \in SUBSET FaultKeys}
  /\ fsdir = Empty
  /\ bufSize = defaultDirOpenBufferSize
  /\ res = NoRes
  /\ pre = store
  /\ h = << >>
  /\ emitted = << >>
  /\ sizes = {}
  /\ faults \in {{}} \cup {{f} : f \in FaultCalls}
  /\ c = 0
  /\ conns = << >>
  /\ held = << >>
  /\ made = {}
  /\ rf = << >>
  /\ wf = << >>
  /\ streams = NoStreams

NextFault ==
  \/ \E name \in FaultNames : CallOpen(name)
  \/ \E name \in FaultNames : CallStat(name)
  \/ \E name \in FaultNames : CallReadDir(name)
  \/ \E name \in FaultNames : CallReadFile(name)
  \/ \E pattern \in FaultPatterns : CallGlob(pattern)
  \/ \E pattern \in BadPatterns : CallGlob(pattern)
  \/ \E name \in FaultNames : CallCreateFile(name)
  \/ \E name \in FaultNames, p \in Data : CallWriteFile(name, p)
  \/ \E name \in FaultNames : CallRemoveFile(name)
  \/ \E name \in FaultNames : CallRemoveAll(name)
  \/ \E dir \in SubDirs : CallSub(dir)
  \/ Return

SpecFault == InitFault /\ [][NextFault]_vars

(***************************************************************************)
(* A fifth specification: a caller who opens or creates one file and uses  *)
(* it through the handle, over a backend whose stream opening may fail.    *)
(***************************************************************************)

\* The number of streams a caller opens through one handle.
MaxOpens == 2

\* The objects of the bucket and the names the caller passes.
FileKeys == {kA, kB, kA_A}
FileNames == {kA, kB, kAB, kA_A}

InitFile ==
  /\ store \in {[k \in S |-> InitData] : S \in SUBSET FileKeys}
  /\ fsdir = Empty
  /\ bufSize = defaultDirOpenBufferSize
  /\ res = NoRes
  /\ pre = store
  /\ h = << >>
  /\ emitted = << >>
  /\ sizes = {}
  /\ faults \in {{}, {<< "NewReader", kA >>}, {<< "Write", kB >>}}
  /\ c = 0
  /\ conns = << >>
  /\ held = << >>
  /\ made = {}
  /\ rf = << >>
  /\ wf = << >>
  /\ streams = NoStreams

\* The caller holds no file and no writer handle.
NoHandle == rf = << >> /\ wf = << >>

\* The number of backend calls named call among calls.
Count(calls, call) == Cardinality({i \in 1..Len(calls) : calls[i][1] = call})

\* GCSFS.Open or GCSFS.Stat by a caller that holds no handle: the handle of
\* a file that Open returned is kept.
FileOpenOf(op, name, o) ==
  /\ NoHandle
  /\ res' = openRes(op, name, o)
  /\ pre' = store
  /\ rf' = IF op = "Open" /\ o.err = Nil /\ ~o.isDir THEN << o.file >> ELSE << >>
  /\ streams' = [opens |-> Count(o.calls, "NewReader"),
                 closes |-> Count(o.calls, "Close")]
  /\ Connect(o.calls)
  /\ UNCHANGED << store, fsdir, bufSize, h, emitted, sizes, wf >>
FileOpen(name) == FileOpenOf("Open", name, Open(fsdir, bufSize, store, name))
FileStat(name) == FileOpenOf("Stat", name, Stat(fsdir, store, name))

\* The streams opened and closed once a handle call has made the backend
\* calls in calls without (ok) or with an error of the opening.
streamsAfter(calls, opener, ok) ==
  [opens |-> streams.opens + (IF ok THEN Count(calls, opener) ELSE 0),
   closes |-> streams.closes + Count(calls, "Close")]

\* gcsFile.Read on the handle.
fileReadRes(r) ==
  [NoRes EXCEPT !.op = "FileRead", !.err = r.err, !.data = r.data,
                !.n = Len(r.data), !.calls = r.calls]
FileReadOf(r) ==
  /\ res' = fileReadRes(r)
  /\ rf' = << r.f >>
  /\ streams' = streamsAfter(r.calls, "NewReader", r.f.in.state = "open")
  /\ UNCHANGED << store, fsdir, bufSize, pre, h, emitted, sizes, faults, c, conns, held, made, wf >>
FileRead ==
  /\ rf # << >>
  /\ rf[1].in.state = "nil" => streams.opens < MaxOpens
  /\ FileReadOf(fileRead(rf[1], store))

\* gcsFile.Close on the handle.
fileCloseRes(op, r) == [NoRes EXCEPT !.op = op, !.err = r.err, !.calls = r.calls]
FileCloseOf(r) ==
  /\ res' = fileCloseRes("FileClose", r)
  /\ rf' = << r.f >>
  /\ streams' = streamsAfter(r.calls, "NewReader", FALSE)
  /\ UNCHANGED << store, fsdir, bufSize, pre, h, emitted, sizes, faults, c, conns, held, made, wf >>
FileClose ==
  /\ rf # << >>
  /\ FileCloseOf(fileClose(rf[1]))

\* GCSFS.CreateFile by a caller that holds no handle: the writer is kept.
WriterCreateOf(name, cr) ==
  /\ NoHandle
  /\ res' = createFileRes(name, cr)
  /\ pre' = store
  /\ wf' = IF cr.err = Nil THEN << cr.w >> ELSE << >>
  /\ streams' = [opens |-> Count(cr.calls, "NewWriter"),
                 closes |-> Count(cr.calls, "Close")]
  /\ Connect(cr.calls)
  /\ UNCHANGED << store, fsdir, bufSize, h, emitted, sizes, rf >>
WriterCreate(name) == WriterCreateOf(name, createFile(fsdir, store, name))

\* gcsWriterFile.Write on the handle.
fileWriteRes(p, r) ==
  [NoRes EXCEPT !.op = "FileWrite", !.p = p, !.n = r.n, !.err = r.err,
                !.w = r.w, !.calls = r.calls]
WriterWriteOf(p, r) ==
  /\ res' = fileWriteRes(p, r)
  /\ wf' = << r.w >>
  /\ streams' = streamsAfter(r.calls, "NewWriter", TRUE)
  /\ UNCHANGED << store, fsdir, bufSize, pre, h, emitted, sizes, faults, c, conns, held, made, rf >>
WriterWrite(p) ==
  /\ wf # << >>
  /\ Len(wf[1].out.buf) + Len(p) <= MaxDataLen
  /\ WriterWriteOf(p, fileWrite(wf[1], p))

\* gcsWriterFile.Close on the handle: a stream that has been closed
\* commits its bytes to the bucket.
writerCloseCalls(w0, w) ==
  IF w0.out.state = "open" /\ w.out.state = "closed"
    THEN << << "Close", w.key >> >> ELSE << >>
writerCloseRes(w0, w) ==
  [NoRes EXCEPT !.op = "WriterClose", !.w = w, !.calls = writerCloseCalls(w0, w)]
WriterCloseOf(w0, w) ==
  /\ res' = writerCloseRes(w0, w)
  /\ pre' = store
  /\ wf' = << w >>
  /\ store' = commit(store, w)
  /\ streams' = streamsAfter(writerCloseCalls(w0, w), "NewWriter", FALSE)
  /\ UNCHANGED << fsdir, bufSize, h, emitted, sizes, faults, c, conns, held, made, rf >>
WriterClose ==
  /\ wf # << >>
  /\ WriterCloseOf(wf[1], writerClose(wf[1]))

\* The caller lets the handle go.
Drop ==
  /\ ~NoHandle
  /\ res' = NoRes
  /\ pre' = store
  /\ rf' = << >>
  /\ wf' = << >>
  /\ streams' = NoStreams
  /\ UNCHANGED << store, fsdir, bufSize, h, emitted, sizes, faults, c, conns, held, made >>

NextFile ==
  \/ \E name \in FileNames : FileOpen(name)
  \/ \E name \in FileNames : FileStat(name)
  \/ FileRead
  \/ FileClose
  \/ \E name \in FileNames : WriterCreate(name)
  \/ \E p \in Data : WriterWrite(p)
  \/ WriterClose
  \/ Drop

SpecFile == InitFile /\ [][NextFile]_vars

(***************************************************************************)
(* Roots that share a connection: the caller keeps the root Sub was called *)
(* on beside the derived root, goes from one root it holds to another and  *)
(* calls Close on them.                                                    *)
(***************************************************************************)

\* The roots the caller keeps beside the one in use, and the connections
\* storage.NewClient is asked for.
MaxHeld == 2
MaxConns == 3

ConnKeys == {kA, kA_A}
ConnNames == {Dot, kA, kA_A}

InitConn ==
  /\ store \in {[k \in S |-> InitData] : S \in SUBSET ConnKeys}
  /\ fsdir = Empty
  /\ bufSize = defaultDirOpenBufferSize
  /\ res = NoRes
  /\ pre = store
  /\ h = << >>
  /\ emitted = << >>
  /\ sizes = {}
  /\ faults = {}
  /\ c = 0
  /\ conns = << >>
  /\ held = << >>
  /\ made = {}
  /\ rf = << >>
  /\ wf = << >>
  /\ streams = NoStreams

\* A root: its prefix, its DirOpenBufferSize and the connection it holds.
Root(dir, size, conn) == [dir |-> dir, bufSize |-> size, c |-> conn]

\* The connections the roots of the caller hold.
Holders == {c} \cup {held[i].c : i \in 1..Len(held)}

\* storage.Client.Close: what closing a connection again returns is up to
\* the backend.
closeErrs == IF Closed THEN {Nil, ErrClosed} ELSE {Nil}

\* GCSFS.Close on the root in use: a root without a connection returns nil,
\* any other closes its connection, forgets it and returns what close did.
Close(err) ==
  IF c = 0
    THEN [err |-> Nil, calls |-> << >>, c |-> 0, conns |-> conns]
    ELSE [err |-> err, calls |-> << << "close", Empty >> >>, c |-> 0,
          conns |-> [conns EXCEPT ![c] = "closed"]]

\* n is the connection the root held when Close was called.
closeRes(r) ==
  [NoRes EXCEPT !.op = "Close", !.n = c, !.err = r.err, !.calls = r.calls]
CallCloseOf(r) ==
  /\ Idle
  /\ res' = closeRes(r)
  /\ pre' = store
  /\ c' = r.c
  /\ conns' = r.conns
  /\ UNCHANGED << store, fsdir, bufSize, h, emitted, sizes, faults, held, made >>
  /\ UNCHANGED fileVars
CallClose == \E err \in closeErrs : CallCloseOf(Close(err))

\* storage.NewClient is asked for a bounded number of connections.
MayConnect == c # 0 \/ Len(conns) < MaxConns

\* Sub by a caller that keeps the root it was called on: that root keeps
\* the connection client stored in it, the derived root is the one in use.
KeepSubOf(dir, r) ==
  /\ Idle
  /\ MayConnect
  /\ Len(held) < MaxHeld
  /\ Depth(fsdir) < MaxSubDepth
  /\ res' = subRes(dir, r)
  /\ pre' = store
  /\ fsdir' = r.dir
  /\ bufSize' = IF r.err = Nil THEN 0 ELSE bufSize
  /\ c' = IF Constructs(r.calls) THEN Len(conns) + 1 ELSE c
  /\ conns' = IF Constructs(r.calls) THEN Append(conns, "open") ELSE conns
  /\ held' = IF r.err = Nil THEN Append(held, Root(fsdir, bufSize, c')) ELSE held
  /\ UNCHANGED << store, h, emitted, sizes, faults, made >>
  /\ UNCHANGED fileVars
KeepSub(dir) == KeepSubOf(dir, Sub(fsdir, dir))

\* The caller goes on with another root it holds.
Switch(i) ==
  /\ Idle
  /\ fsdir' = held[i].dir
  /\ bufSize' = held[i].bufSize
  /\ c' = held[i].c
  /\ held' = [held EXCEPT ![i] = Root(fsdir, bufSize, c)]
  /\ UNCHANGED << store, res, pre, h, emitted, sizes, faults, conns, made >>
  /\ UNCHANGED fileVars

\* Stat on the root in use.
ConnStat(name) == MayConnect /\ CallStat(name)

NextConn ==
  \/ \E name \in ConnNames : ConnStat(name)
  \/ \E dir \in SubDirs \cup {Empty} : KeepSub(dir)
  \/ \E i \in 1..Len(held) : Switch(i)
  \/ CallClose
  \/ Return

SpecConn == InitConn /\ [][NextConn]_vars

(***************************************************************************)
(* MkdirAll: the caller makes directories and looks at them.               *)
(***************************************************************************)

MkdirKeys == {kA, kA_A, kB_A}
MkdirNames == {Dot, kA, kB, << "a", "/" >>}

\* The store with an empty object as the marker of the directory of key k.
withMarker(st, k) ==
  [x \in KeysOf(st) \cup {k \o Slash} |-> IF x \in KeysOf(st) THEN st[x] ELSE << >>]

\* A MkdirAll that writes a marker object for the directory.
MkdirAllMarking(root, st, dir) ==
  [err |-> Nil, calls |-> << << "NewWriter", key(root, dir) \o Slash >> >>,
   st |-> withMarker(st, key(root, dir))]

\* GCSFS.MkdirAll: does nothing and returns nil, whatever dir and mode are.
MkdirAll(root, st, dir) == [err |-> Nil, calls |-> << >>, st |-> st]

mkdirRes(dir, r) ==
  [NoRes EXCEPT !.op = "MkdirAll", !.name = dir, !.err = r.err, !.calls = r.calls]
CallMkdirAllOf(dir, r) ==
  /\ Idle
  /\ res' = mkdirRes(dir, r)
  /\ pre' = store
  /\ store' = r.st
  /\ made' = made \cup {key(fsdir, dir)}
  /\ c' = IF Constructs(r.calls) THEN Len(conns) + 1 ELSE c
  /\ conns' = IF Constructs(r.calls) THEN Append(conns, "open") ELSE conns
  /\ UNCHANGED << fsdir, bufSize, h, emitted, sizes, faults, held >>
  /\ UNCHANGED fileVars
CallMkdirAll(dir) == CallMkdirAllOf(dir, MkdirAll(fsdir, store, dir))

InitMkdir ==
  /\ store \in {[k \in S |-> InitData] : S \in SUBSET MkdirKeys}
  /\ fsdir = Empty
  /\ bufSize = defaultDirOpenBufferSize
  /\ res = NoRes
  /\ pre = store
  /\ h = << >>
  /\ emitted = << >>
  /\ sizes = {}
  /\ faults = {}
  /\ c = 0
  /\ conns = << >>
  /\ held = << >>
  /\ made = {}
  /\ rf = << >>
  /\ wf = << >>
  /\ streams = NoStreams

NextMkdir ==
  \/ \E dir \in MkdirNames : CallMkdirAll(dir)
  \/ \E name \in MkdirNames : CallStat(name)
  \/ \E name \in MkdirNames : CallReadDir(name)
  \/ \E name \in MkdirNames : CallRemoveFile(name)
  \/ \E dir \in SubDirs : CallSub(dir)
  \/ Return

SpecMkdir == InitMkdir /\ [][NextMkdir]_vars

(***************************************************************************)
(* The error translations of util.go, applied to errors of every kind and  *)
(* to what they have returned themselves.                                  *)
(***************************************************************************)

\* The depth to which errors are wrapped.
MaxWraps == 2

\* The errors a translation is first given: nil, the two not-found signals
\* and errors of other kinds.
BaseErrors ==
  { Nil, Sentinel("ErrObjectNotExist"), Sentinel("ErrNotExist"),
    Sentinel("ErrExist"), Sentinel("ErrInvalid"), Sentinel("EISDIR"),
    Sentinel("ENOTDIR"), Canceled }
ErrOps == {"Open", "CreateFile"}
ErrNames == {kA, kB}

InitErr ==
  /\ store = [k \in {} |-> InitData]
  /\ fsdir = Empty
  /\ bufSize = defaultDirOpenBufferSize
  /\ res \in {[NoRes EXCEPT !.err = e] : e \in BaseErrors}
  /\ pre = store
  /\ h = << >>
  /\ emitted = << >>
  /\ sizes = {}
  /\ faults = {}
  /\ c = 0
  /\ conns = << >>
  /\ held = << >>
  /\ made = {}
  /\ rf = << >>
  /\ wf = << >>
  /\ streams = NoStreams

\* A translation is applied to the error at hand; its result is the error
\* at hand from then on.
Translated(op, name, err) ==
  /\ res' = [NoRes EXCEPT !.op = op, !.name = name, !.err = err]
  /\ UNCHANGED << store, fsdir, bufSize, pre, h, emitted, sizes, faults, c,
                  conns, held, made >>
  /\ UNCHANGED fileVars
CallToPathError(op, name) ==
  /\ Len(res.err.wraps) < MaxWraps
  /\ Translated(op, name, toPathError(res.err, op, name))
CallToObjectNotExistIfNoExist ==
  Translated("toObjectNotExistIfNoExist", Empty, toObjectNotExistIfNoExist(res.err))

NextErr ==
  \/ \E op \in ErrOps, name \in ErrNames : CallToPathError(op, name)
  \/ CallToObjectNotExistIfNoExist

SpecErr == InitErr /\ [][NextErr]_vars

(***************************************************************************)
(* Removing from a bucket with objects of every legal name: beside files   *)
(* and their siblings, the marker object of a directory ("a/") and an      *)
(* object whose key has a ".." element.                                    *)
(***************************************************************************)

kA2_X == << "a", "2", "/", "x" >>
kA_T == << "a", ".", "t" >>
kAMarker == << "a", "/" >>
kA_Up_B == << "a", "/", ".", ".", "/", "b" >>

RemoveKeys == {kA, kB, kA_A, kA2_X, kA_T, kAMarker, kA_Up_B}
RemoveNames == {Dot, kA, kB, kA_A}

InitRemove ==
  /\ store \in {[k \in S |-> InitData] : S \in SUBSET RemoveKeys}
  /\ fsdir = Empty
  /\ bufSize = defaultDirOpenBufferSize
  /\ res = NoRes
  /\ pre = store
  /\ h = << >>
  /\ emitted = << >>
  /\ sizes = {}
  /\ faults = {}
  /\ c = 0
  /\ conns = << >>
  /\ held = << >>
  /\ made = {}
  /\ rf = << >>
  /\ wf = << >>
  /\ streams = NoStreams

NextRemove ==
  \/ \E name \in RemoveNames : CallRemoveAll(name)
  \/ \E name \in RemoveNames : CallRemoveFile(name)
  \/ \E dir \in SubDirs : CallSub(dir)
  \/ Return

SpecRemove == InitRemove /\ [][NextRemove]_vars

(***************************************************************************)
(* A derived root over a bucket that has objects inside and outside its    *)
(* prefix: the root itself, a sibling sharing its name as a string prefix, *)
(* and an object whose key has a ".." element.                             *)
(***************************************************************************)

ConfinedKeys == {kA, kB, kA_A, kA_B, kA2_X, kA_Up_B}
ConfinedNames == {Dot, kA, kB, kA_A}
ConfinedPatterns == {<< "?" >>, << "a", "*" >>, << "*", "/", "*" >>, kA}

InitConfined ==
  /\ store \in {[k \in S |-> InitData] : S \in SUBSET ConfinedKeys}
  /\ fsdir = Empty
  /\ bufSize = defaultDirOpenBufferSize
  /\ res = NoRes
  /\ pre = store
  /\ h = << >>
  /\ emitted = << >>
  /\ sizes = {}
  /\ faults = {}
  /\ c = 0
  /\ conns = << >>
  /\ held = << >>
  /\ made = {}
  /\ rf = << >>
  /\ wf = << >>
  /\ streams = NoStreams

NextConfined ==
  \/ \E dir \in SubDirs : CallSub(dir)
  \/ \E name \in ConfinedNames : CallOpen(name)
  \/ \E name \in ConfinedNames : CallStat(name)
  \/ \E name \in ConfinedNames : CallReadDir(name)
  \/ \E name \in ConfinedNames : CallReadFile(name)
  \/ \E pattern \in ConfinedPatterns : CallGlob(pattern)
  \/ \E name \in ConfinedNames : CallCreateFile(name)
  \/ \E name \in ConfinedNames, p \in Data : CallWriteFile(name, p)
  \/ \E name \in ConfinedNames : CallRemoveFile(name)
  \/ \E name \in ConfinedNames : CallRemoveAll(name)
  \/ Return

SpecConfined == InitConfined /\ [][NextConfined]_vars

(***************************************************************************)
(* Properties                                                              *)
(***************************************************************************)

\* The elements of a sequence.
Range(seq) == {seq[i] : i \in 1..Len(seq)}

\* seq is strictly ascending in byte order: sorted, and no name twice.
StrictlyAscending(seq) ==
  \A i, j \in 1..Len(seq) : i < j => StrLess(seq[i], seq[j])

\* The prefix every key under the directory with key k starts with.
Under(k) == IF k = Dot THEN Empty ELSE k \o Slash

\* Path p is a file of the root dir over bucket st; p is a directory of it.
IsFile(dir, st, p) == key(dir, p) \in KeysOf(st)
HasChildren(dir, st, p) ==
  \E x \in KeysOf(st) : x # key(dir, p) /\ HasPrefix(x, Under(key(dir, p)))

\* The proper ancestors of a path, the root excluded: a for a/b, a and a/b
\* for a/b/c.
Ancestors(p) == {SubSeq(p, 1, i - 1) : i \in {j \in 1..Len(p) : p[j] = "/"}}

\* The root-relative names of the objects of the root dir over bucket st.
RootPrefix(dir) == IF dir = Empty THEN Empty ELSE dir \o Slash
RelKeys(dir, st) ==
  {SubSeq(x, Len(RootPrefix(dir)) + 1, Len(x)) :
     x \in {y \in KeysOf(st) : HasPrefix(y, RootPrefix(dir))}}

\* The root-relative names that exist: file objects and synthetic
\* directories.
Existing(dir, st) ==
  RelKeys(dir, st) \cup UNION {Ancestors(x) : x \in RelKeys(dir, st)}

\* name matches pattern segment by segment.
SegMatch(pattern, name) ==
  /\ Len(Split(pattern)) = Len(Split(name))
  /\ \A i \in 1..Len(Split(pattern)) : Match(Split(pattern)[i], Split(name)[i])

C2_OpenStatNotFound ==
  (/\ res.op \in {"Open", "Stat"}
   /\ ValidPath(res.name)
   /\ ~IsFile(fsdir, store, res.name)
   /\ ~HasChildren(fsdir, store, res.name))
    => res.err.kind = "ErrNotExist"

C2_Witness ==
  /\ res.op = "Stat"
  /\ res.name = Dot
  /\ KeysOf(store) = {}
  /\ res.err.kind = "ErrNotExist"

\* C3: the list GCSFS.ReadDir returns is sorted ascending by name and holds
\* no name twice.
C3_ReadDirSortedUnique ==
  (res.op = "ReadDir" /\ res.err = Nil) => StrictlyAscending(res.names)

\* C4: ReadDir(n), n > 0, repeated on one handle until the end-of-sequence
\* signal yields the set of entries one ReadDir(-1) on a fresh handle of
\* the same directory yields.
C4_PaginationEquivalence ==
  (/\ h # << >>
   /\ res.op = "DirReadDir"
   /\ res.err = Sentinel("EOF")
   /\ Cardinality(sizes) = 1
   /\ \A n \in sizes : n > 0)
    => Range(emitted) = Range(dirReadDir(gcsDirAt(h[1].prefix), -1, store).entries)

\* C5 on the segment-expansion path alone: for every pattern but "" and
\* "*", Glob succeeds and returns exactly the existing names that match.
C5_GlobExactGeneral ==
  (res.op = "Glob" /\ res.p \notin {Empty, << "*" >>})
    => /\ res.err = Nil
       /\ Range(res.names) = {x \in Existing(fsdir, store) : SegMatch(res.p, x)}

\* C5: Glob(pattern) succeeds and returns exactly the existing root-relative
\* names (files and synthetic directories) that match the pattern segment
\* by segment.
C5_GlobExact ==
  (res.op = "Glob" /\ res.p # Empty)
    => /\ res.err = Nil
       /\ Range(res.names) = {x \in Existing(fsdir, store) : SegMatch(res.p, x)}

\* C6: after RemoveAll(d) returns without error no key under d's prefix
\* remains, the listing of the root does not show d, and Stat(d) reports
\* not-found.
C6_RemoveAllRemoves ==
  (res.op = "RemoveAll" /\ res.err = Nil)
    => /\ ~HasChildren(fsdir, store, res.name)
       /\ Stat(fsdir, store, res.name).err.kind = "ErrNotExist"
       /\ res.name \notin Range(Names(ReadDir(fsdir, store, Dot).entries))

\* C7: CreateFile(name) and WriteFile(name, data) fail with EISDIR when
\* name is a directory (no object name, an object under name + "/"), and
\* the bucket is left as it was.
C7_IsADirectory ==
  (/\ res.op \in {"CreateFile", "WriteFile"}
   /\ ValidPath(res.name)
   /\ ~IsFile(fsdir, pre, res.name)
   /\ HasChildren(fsdir, pre, res.name))
    => (res.err.kind = "EISDIR" /\ store = pre)

C7_Witness ==
  /\ res.op = "WriteFile"
  /\ res.name = kA
  /\ Len(res.p) > 0
  /\ fsdir = Empty
  /\ kA \notin KeysOf(pre)
  /\ kA_B \in KeysOf(pre)
  /\ res.err.kind = "EISDIR"

\* C8: CreateFile(name) and WriteFile(name, data) fail with ENOTDIR when
\* any proper ancestor of name is a file object, and the bucket is left as
\* it was.
C8_NotADirectory ==
  (/\ res.op \in {"CreateFile", "WriteFile"}
   /\ ValidPath(res.name)
   /\ \E q \in Ancestors(res.name) : IsFile(fsdir, pre, q))
    => (res.err.kind = "ENOTDIR" /\ store = pre)

\* C9: Glob("*") and Glob("") succeed and return the names of the entries
\* directly in the root.
C9_GlobAll ==
  (res.op = "Glob" /\ res.p \in {Empty, << "*" >>})
    => /\ res.err = Nil
       /\ Range(res.names) = {Split(x)[1] : x \in RelKeys(fsdir, store)}

\* C10: the slice Glob returns is sorted in byte order and holds no name
\* twice, whatever the pattern.
C10_GlobSortedUnique == res.op = "Glob" => StrictlyAscending(res.names)

C10_Witness ==
  /\ res.op = "Glob"
  /\ res.p = << "?" >>
  /\ res.err = Nil
  /\ kB \in KeysOf(store)
  /\ kA \notin KeysOf(store)
  /\ res.names = << kA, kB >>

\* C11: with a bucket holding exactly dir0/file01.txt, dir0/file02.txt and
\* dir1/x.txt, ReadDir("") returns exactly the directory entries dir0 and
\* dir1 in that order, and ReadDir("dir0") returns exactly the file entries
\* file01.txt and file02.txt in that order.
C11_ScenarioListing ==
  (res.op = "ReadDir" /\ KeysOf(pre) = TreeKeys) =>
     /\ res.name = Empty =>
          /\ res.err = Nil
          /\ res.names = << dir0, dir1 >>
          /\ \A i \in 1..Len(res.entries) : res.entries[i].isDir
     /\ res.name = dir0 =>
          /\ res.err = Nil
          /\ res.names = << file01, file02 >>
          /\ \A i \in 1..Len(res.entries) : ~res.entries[i].isDir

\* The operations that take a name and test it with fs.ValidPath.
NamedOps ==
  {"Open", "Stat", "ReadDir", "ReadFile", "Sub", "CreateFile", "WriteFile",
   "RemoveFile", "RemoveAll"}

\* C12: for every name fs.ValidPath rejects, each of Open, Stat, ReadDir,
\* ReadFile, Sub, CreateFile, WriteFile, RemoveFile and RemoveAll returns an
\* error of kind ErrInvalid, makes no backend call (it constructs no
\* connection and fetches, lists, opens and deletes nothing) and leaves the
\* bucket as it was.
C12_InvalidPathNoBackendCall ==
  [][(res'.op \in NamedOps /\ res.op = "none" /\ ~ValidPath(res'.name)) =>
       /\ res'.err.kind = "ErrInvalid"
       /\ res'.calls = << >>
       /\ c' = c
       /\ conns' = conns
       /\ store' = store]_vars

\* WriteFile with a name holding a ".." segment was refused on a root that
\* holds no connection over a bucket that holds objects.
C12_Witness ==
  /\ res.op = "WriteFile"
  /\ res.name = << ".", ".", "/", "a" >>
  /\ res.err.kind = "ErrInvalid"
  /\ c = 0
  /\ KeysOf(store) # {}

\* A backend call the operation that has just returned made is one the
\* environment makes fail.
FailedCall == \E i \in 1..Len(res.calls) : res.calls[i] \in faults

\* C13: when a backend call that Open, Stat, ReadFile, ReadDir, Glob,
\* CreateFile, WriteFile, RemoveFile or RemoveAll makes fails with an error
\* other than the object-not-found signal, the operation returns an error
\* of that kind: not NotFound, and not success.
C13_BackendErrorPropagates ==
  (res.op \in {"Open", "Stat", "ReadFile", "ReadDir", "Glob", "CreateFile",
               "WriteFile", "RemoveFile", "RemoveAll"} /\ FailedCall) =>
     res.err.kind = "Canceled"

\* C14: every error a public operation returns (Open, Stat, ReadDir,
\* ReadFile, Sub, Glob, CreateFile, WriteFile, RemoveFile, RemoveAll, and
\* ReadDir on a directory handle) is path-scoped: a *fs.PathError around
\* the underlying kind, never a bare error.
C14_ErrorsPathScoped ==
  (res.op \in NamedOps \cup {"Glob", "DirReadDir"} /\ res.err # Nil) =>
     res.err.wraps # << >>

\* The keys of the objects whose delete is among the first n backend calls
\* of the operation that has just returned.
DeletedBefore(n) ==
  {res.calls[i][2] : i \in {j \in 1..n : res.calls[j][1] = "delete"}}

\* C15: when a delete or a listing step fails partway through RemoveAll(d),
\* RemoveAll stops at once and returns that first error: the failing call
\* is its last backend call, the objects deleted before it stay deleted
\* and every other object is still in the bucket.
C15_RemoveAllStopsAtFirstFailure ==
  (res.op = "RemoveAll" /\ FailedCall) =>
     /\ res.err.kind = "Canceled"
     /\ res.calls[Len(res.calls)] \in faults
     /\ \A i \in 1..(Len(res.calls) - 1) : res.calls[i] \notin faults
     /\ KeysOf(store) = KeysOf(pre) \ DeletedBefore(Len(res.calls) - 1)
     /\ \A k \in KeysOf(store) : store[k] = pre[k]

\* RemoveAll("a") deleted a/a, then failed on a/b, which is still there.
C15_Witness ==
  /\ res.op = "RemoveAll"
  /\ res.name = kA
  /\ res.err.kind = "Canceled"
  /\ faults = {<< "delete", kA_B >>}
  /\ kA_A \in KeysOf(pre)
  /\ kA_A \notin KeysOf(store)
  /\ kA_B \in KeysOf(store)

\* C16: when p names an existing file object and RemoveAll(p) returns
\* without error, the object p is gone: its key is not in the bucket and
\* Stat(p) reports not-found.
C16_RemoveAllRemovesFile ==
  (res.op = "RemoveAll" /\ res.err = Nil /\ IsFile(fsdir, pre, res.name)) =>
     /\ key(fsdir, res.name) \notin KeysOf(store)
     /\ Stat(fsdir, store, res.name).err.kind = "ErrNotExist"

\* The names of a derived root as the parent root reports them.
UnderDir(dir, names) == [i \in 1..Len(names) |-> Join(dir, names[i])]

\* What the caller sees of Open and Stat, of ReadDir and of Glob.
Seen(o) == [kind |-> o.err.kind, isDir |-> o.isDir, content |-> o.content]
SeenEntries(r) == [kind |-> r.err.kind, entries |-> r.entries]
SeenNames(g, dir) == [kind |-> g.err.kind, names |-> UnderDir(dir, g.names)]

\* C17: Sub(dir) returns a root whose prefix is Join(root, dir): an
\* operation on the derived root with a name gives the result, and leaves
\* the bucket, that the same operation on the root it was derived from
\* gives with Join(dir, name), the names of Glob being relative to the
\* derived root; and Sub(a) followed by Sub(b) is Sub(Join(a, b)).
C17_SubEquivalence ==
  /\ (res.op = "Sub" /\ res.err = Nil) =>
        /\ \E d \in SubDirs \cup {Dot} : fsdir = Join(Empty, d)
        /\ \A a \in SubDirs, b \in SubDirs :
              Sub(Sub(Empty, a).dir, b).dir = Sub(Empty, Join(a, b)).dir
  /\ (fsdir # Empty /\ ValidPath(res.name)) =>
        /\ res.op = "Open" =>
              Seen(res) = Seen(Open(Empty, defaultDirOpenBufferSize, pre,
                                    Join(fsdir, res.name)))
        /\ res.op = "Stat" =>
              Seen(res) = Seen(Stat(Empty, pre, Join(fsdir, res.name)))
        /\ res.op = "ReadDir" =>
              SeenEntries(res) = SeenEntries(ReadDir(Empty, pre, Join(fsdir, res.name)))
        /\ res.op = "ReadFile" =>
              /\ res.err.kind = ReadFile(Empty, pre, Join(fsdir, res.name)).err.kind
              /\ res.data = ReadFile(Empty, pre, Join(fsdir, res.name)).data
        /\ res.op = "CreateFile" =>
              /\ res.err.kind = createFile(Empty, pre, Join(fsdir, res.name)).err.kind
              /\ res.w.key = createFile(Empty, pre, Join(fsdir, res.name)).w.key
        /\ res.op = "WriteFile" =>
              /\ res.err.kind = WriteFile(Empty, pre, Join(fsdir, res.name), res.p).err.kind
              /\ res.n = WriteFile(Empty, pre, Join(fsdir, res.name), res.p).n
              /\ store = WriteFile(Empty, pre, Join(fsdir, res.name), res.p).st
        /\ res.op = "RemoveFile" =>
              /\ res.err.kind = RemoveFile(Empty, pre, Join(fsdir, res.name)).err.kind
              /\ store = RemoveFile(Empty, pre, Join(fsdir, res.name)).st
        /\ res.op = "RemoveAll" =>
              /\ res.err.kind = RemoveAll(Empty, pre, Join(fsdir, res.name)).err.kind
              /\ store = RemoveAll(Empty, pre, Join(fsdir, res.name)).st
  /\ (fsdir # Empty /\ res.op = "Glob" /\ ValidPath(res.p)) =>
        SeenNames(res, fsdir) = SeenNames(Glob(Empty, pre, Join(fsdir, res.p)), Empty)

\* C18: on a writer handle whose stream a Write has opened, the first
\* Close closes the stream, and over any sequence of Close calls the stream
\* is closed exactly once: after a Close the stream is closed, one close
\* has been made, and the Close returned no error.
C18_WriterCloseOnce ==
  (res.op = "WriterClose" /\ wf # << >> /\ streams.opens > 0) =>
     /\ wf[1].out.state = "closed"
     /\ streams.closes = 1
     /\ res.err = Nil

Shared == Holders \ {0}

\* C20: a root and the roots derived from it by Sub hold one and the same
\* connection, so that no two of them hold connections of which one is open
\* and the other closed; Close on a root closes its connection for every
\* root that holds it; Close on a root that holds no connection returns nil
\* without a backend call.
C20_SharedConnection ==
  /\ \A x, y \in Shared : x = y
  /\ res.op = "Close" /\ res.n # 0 =>
       /\ res.calls = << << "close", Empty >> >>
       /\ conns[res.n] = "closed"
  /\ res.op = "Close" /\ res.n = 0 => res.err = Nil /\ res.calls = << >>

\* What does hold of the shared connection: Close closes the connection the
\* root held, Close on a root without a connection does nothing, and the
\* root Sub returned holds the connection of the root it was derived from.
CloseReachesSharers ==
  /\ res.op = "Close" /\ res.n # 0 =>
       /\ res.calls = << << "close", Empty >> >>
       /\ conns[res.n] = "closed"
  /\ res.op = "Close" /\ res.n = 0 => res.err = Nil /\ res.calls = << >>
  /\ res.op = "Sub" /\ res.err = Nil => c # 0 /\ held[Len(held)].c = c


\* C21: MkdirAll returns nil, makes no backend call and leaves the bucket
\* and the connection as they were; Stat of a directory MkdirAll was called
\* with, with no object at it or under it, still fails with a not-exist
\* error.
C21_MkdirAllNoOp ==
  /\ res.op = "MkdirAll" =>
       res.err = Nil /\ res.calls = << >> /\ store = pre
  /\ (/\ res.op = "Stat"
      /\ ValidPath(res.name)
      /\ key(fsdir, res.name) \in made
      /\ ~IsFile(fsdir, store, res.name)
      /\ ~HasChildren(fsdir, store, res.name))
       => res.err.kind = "ErrNotExist"

C21_Witness ==
  /\ res.op = "Stat"
  /\ res.name = kB
  /\ key(fsdir, res.name) \in made
  /\ KeysOf(store) # {}
  /\ res.err.kind = "ErrNotExist"


\* C22: Glob with a malformed pattern returns the bad-pattern error and has
\* made no backend call: it has neither constructed a connection nor listed.
C22_BadPatternNoBackendCall ==
  (res.op = "Glob" /\ BadPattern(res.p)) =>
     /\ res.err.kind = "ErrBadPattern"
     /\ res.names = << >>
     /\ res.calls = << >>
     /\ c = 0 => conns = << >>

\* Glob("a/[") has returned on a root that holds no connection and whose
\* bucket has objects under a.
C22_Witness ==
  /\ res.op = "Glob"
  /\ res.p = << "a", "/", "[" >>
  /\ res.err.kind = "ErrBadPattern"
  /\ c = 0
  /\ kA_A \in KeysOf(store)


\* The kind of an error, the two not-found signals taken as one.
KindOf(err) ==
  IF err.kind \in {"ErrObjectNotExist", "ErrNotExist"} THEN "not found" ELSE err.kind

\* C23: toPathError and toObjectNotExistIfNoExist are idempotent (applied
\* to their own result they return that result), map nil to nil, and keep
\* the kind of every error that is neither not-found signal.
C23_TranslationsIdempotent ==
  /\ \A op \in ErrOps, name \in ErrNames :
       /\ toPathError(toPathError(res.err, op, name), op, name)
            = toPathError(res.err, op, name)
       /\ res.err = Nil => toPathError(res.err, op, name) = Nil
       /\ KindOf(toPathError(res.err, op, name)) = KindOf(res.err)
  /\ toObjectNotExistIfNoExist(toObjectNotExistIfNoExist(res.err))
       = toObjectNotExistIfNoExist(res.err)
  /\ res.err = Nil => toObjectNotExistIfNoExist(res.err) = Nil
  /\ KindOf(toObjectNotExistIfNoExist(res.err)) = KindOf(res.err)

\* What does hold of the translations: all of C23 but the idempotence of
\* toPathError, whose result wraps its own result once more.
TranslationsKeepKind ==
  /\ \A op \in ErrOps, name \in ErrNames :
       /\ res.err = Nil => toPathError(res.err, op, name) = Nil
       /\ KindOf(toPathError(res.err, op, name)) = KindOf(res.err)
       /\ res.err # Nil =>
            Len(toPathError(res.err, op, name).wraps) = Len(res.err.wraps) + 1
  /\ toObjectNotExistIfNoExist(toObjectNotExistIfNoExist(res.err))
       = toObjectNotExistIfNoExist(res.err)
  /\ res.err = Nil => toObjectNotExistIfNoExist(res.err) = Nil
  /\ KindOf(toObjectNotExistIfNoExist(res.err)) = KindOf(res.err)


\* The objects of the bucket before the call whose key does not start with
\* prefix are in the bucket, with the contents they had.
Untouched(prefix) ==
  \A k \in KeysOf(pre) :
    ~HasPrefix(k, prefix) => k \in KeysOf(store) /\ store[k] = pre[k]

\* C24: RemoveAll(d) deletes only objects whose key starts with the
\* directory prefix of key(d): every other object is left as it was, the
\* objects that share d as a string prefix included, and on a derived root
\* every object outside the prefix of the root.
C24_RemoveAllFrame ==
  res.op = "RemoveAll" =>
    /\ ValidPath(res.name) => Untouched(normalizePrefix(key(fsdir, res.name)))
    /\ ~ValidPath(res.name) => store = pre
    /\ Untouched(RootPrefix(fsdir))

\* C24 for the buckets whose keys are all clean paths.
CleanKeys == \A k \in KeysOf(pre) : Clean(k) = k
RemoveAllFrameOnCleanKeys == CleanKeys => C24_RemoveAllFrame


\* Key k is the key of the root in use or a key under it; k is under it.
UnderRoot(k) == HasPrefix(k, RootPrefix(fsdir)) /\ k # RootPrefix(fsdir)
AtOrUnderRoot(k) == k = fsdir \/ UnderRoot(k)

\* k is under the root in use and is the key of an object of the bucket or
\* the name of a directory of objects of the bucket.
Denotes(k) ==
  /\ UnderRoot(k)
  /\ \E x \in KeysOf(pre) : x = k \/ HasPrefix(x, k \o Slash)

\* The backend calls that name one object, and the listings.
ObjectCalls ==
  {"attrs", "delete", "NewReader", "Read", "NewWriter", "Write", "Close"}
Confined(call) ==
  /\ call[1] \in ObjectCalls => AtOrUnderRoot(call[2])
  /\ call[1] = "objects" => HasPrefix(call[2], RootPrefix(fsdir))

\* C25: on a derived root with the prefix r, every object a call with a
\* valid name reads, writes or deletes has the key r or a key under r/,
\* every listing is one of keys under r/, nothing outside r/ changes, and
\* every name ReadDir or Glob returns denotes a key under r/ (never r
\* itself, never a sibling of r).
C25_DerivedRootConfined ==
  (/\ fsdir # Empty
   /\ res.op \in NamedOps \cup {"Glob"}
   /\ res.op # "Sub"
   /\ ValidPath(IF res.op = "Glob" THEN res.p ELSE res.name)) =>
     /\ \A i \in 1..Len(res.calls) : Confined(res.calls[i])
     /\ \A k \in KeysOf(pre) \cup KeysOf(store) :
          ~AtOrUnderRoot(k) => k \in KeysOf(pre) /\ k \in KeysOf(store)
                               /\ store[k] = pre[k]
     /\ res.op = "ReadDir" =>
          \A i \in 1..Len(res.names) :
            Denotes(normalizePrefix(key(fsdir, res.name)) \o res.names[i])
     /\ res.op = "Glob" =>
          \A i \in 1..Len(res.names) : Denotes(RootPrefix(fsdir) \o res.names[i])

\* C25 for the buckets whose keys are all clean paths.
DerivedRootConfinedOnCleanKeys == CleanKeys => C25_DerivedRootConfined


\* C26: over the ReadDir(n) calls on one directory handle, whatever the
\* values of n and whatever Open buffered, the entries emitted are in
\* strictly increasing name order, none twice; and after a call that
\* queried the backend the start offset of the handle is the full key of
\* the last entry emitted.
C26_EmissionStrictlyIncreasing ==
  h # << >> =>
    /\ StrictlyAscending(Names(emitted))
    /\ (/\ res.op = "DirReadDir"
        /\ res.n > 0
        /\ res.err = Nil
        /\ res.queries > 0
        /\ res.entries # << >>)
         => h[1].offset = h[1].prefix \o res.entries[Len(res.entries)].name


\* The entries the handle had emitted before the ReadDir that has just
\* returned, and the entries of its directory.
EmittedBefore == SubSeq(emitted, 1, Len(emitted) - Len(res.entries))
EntriesOfHandle == Range(dirReadDir(gcsDirAt(h[1].prefix), -1, store).entries)

\* C27: a ReadDir(n) with n > 0 on a handle that has already emitted every
\* entry of its directory returns the end-of-sequence signal, not an empty
\* result without an error, and makes no listing query.
C27_EndOfSequenceAfterLast ==
  (/\ h # << >>
   /\ res.op = "DirReadDir"
   /\ res.n > 0
   /\ EntriesOfHandle \subseteq Range(EmittedBefore))
    => /\ res.err = Sentinel("EOF")
       /\ res.queries = 0
       /\ res.calls = << >>


\* A proper ancestor of path p is a file of the root in use.
FileAbove(p) == \E q \in Ancestors(p) : IsFile(fsdir, store, q)

\* C28: ReadDir(p) where p or an ancestor of p is a file, and Open(p) and
\* Stat(p) where an ancestor of p is a file and p is no file itself, fail
\* with a not-a-directory error; ReadDir does not return an empty listing
\* without an error.
C28_NotADirectoryOnRead ==
  /\ (/\ res.op = "ReadDir"
      /\ ValidPath(res.name)
      /\ IsFile(fsdir, store, res.name) \/ FileAbove(res.name))
       => res.err.kind = "ENOTDIR"
  /\ (/\ res.op \in {"Open", "Stat"}
      /\ ValidPath(res.name)
      /\ ~IsFile(fsdir, store, res.name)
      /\ FileAbove(res.name))
       => res.err.kind = "ENOTDIR"


\* C29: a ReadDir(n) with n > 0 on a directory handle returns at most n
\* entries whatever the handle has buffered: with at least n entries
\* buffered it returns the first n of them and makes no backend call, with
\* fewer it returns the buffered entries first.
C29_AtMostN ==
  [][(h # << >> /\ res'.op = "DirReadDir" /\ res'.n > 0) =>
       /\ Len(res'.entries) <= res'.n
       /\ Len(h[1].cache) >= res'.n =>
            /\ res'.entries = SubSeq(h[1].cache, 1, res'.n)
            /\ res'.err = Nil
            /\ res'.queries = 0
            /\ res'.calls = << >>
       /\ (Len(h[1].cache) < res'.n /\ res'.err = Nil) =>
            /\ Len(res'.entries) >= Len(h[1].cache)
            /\ SubSeq(res'.entries, 1, Len(h[1].cache)) = h[1].cache]_vars

\* The first ReadDir(2) on a handle Open had buffered one entry in has
\* returned that entry and one more from a listing query.
C29_Witness ==
  /\ h # << >>
  /\ bufSize = 1
  /\ res.op = "DirReadDir"
  /\ res.n = 2
  /\ res.queries = 1
  /\ Len(res.entries) = 2
  /\ emitted = res.entries


\* C30: a Stat(name) that resolves to a directory takes at most one record
\* from the listing, however many objects the directory has, and returns
\* metadata with the last element of name as the name, the directory flag
\* set and the size zero.
C30_StatDirectoryProbe ==
  (res.op = "Stat" /\ res.err = Nil /\ res.isDir) =>
     /\ res.fetched <= 1
     /\ Count(res.calls, "objects") = 1
     /\ Count(res.calls, "next") <= 1
     /\ res.content = [name |-> Base(res.name), isDir |-> TRUE, size |-> 0]

\* C30 as it holds: a Stat(name) that resolves to a directory takes at most
\* one record from one listing, and returns metadata named after the last
\* element of the key of the directory (the prefix of the root joined with
\* name), with the directory flag set and the size zero.
C30_StatDirectoryProbeByKey ==
  (res.op = "Stat" /\ res.err = Nil /\ res.isDir) =>
     /\ res.fetched <= 1
     /\ Count(res.calls, "objects") = 1
     /\ Count(res.calls, "next") <= 1
     /\ res.content = [name |-> Base(key(fsdir, res.name)), isDir |-> TRUE, size |-> 0]


\* Stat(".") on the root derived by Sub("a"), whose directory has two
\* objects, has returned the metadata of a directory named a.
C30_Witness ==
  /\ res.op = "Stat"
  /\ res.err = Nil
  /\ res.isDir
  /\ fsdir = kA
  /\ res.name = Dot
  /\ {kA_A, kA_B} \subseteq KeysOf(store)
  /\ res.fetched = 1
  /\ res.content.name = kA

====
